---- MODULE Spec2Model ----
(***************************************************************************)
(* Model of the vizor polygon editor (PolygonEditor), its owner            *)
(* (ImagePolygonMapper), the read-only viewers (InteractiveFloorPlan,      *)
(* LegacySvgFloorPlan, FloorPlanViewer) and the aggregate colour resolver  *)
(* (BuildingFloorSelector.getFillColor).                                   *)
(*                                                                         *)
(* Conventions.                                                            *)
(*  - Normalized coordinates are kept in thousandths: the number 0.02 is   *)
(*    20, 1.0 is Scale.  Arithmetic is exact (no floating-point rounding). *)
(*  - Indices are 0-based as in the source; At0 reads a sequence 0-based.  *)
(*  - null is Null (-1) for an index and NoDrag for draggingVertex.        *)
(*  - zoom is an exact fraction [n, d] in lowest terms.                    *)
(***************************************************************************)
EXTENDS Integers, Sequences, FiniteSets, TLC

VARIABLES
    \* PolygonEditor (useState)
    mode, currentPoints, selectedPolygonIdx, draggingVertex,
    imageDimensions, zoom, pan, isPanning, panStart, spaceHeld,
    \* ImagePolygonMapper (useState), handed to the editor as a prop
    polygons,
    \* read-only viewers: props of the host page and the host's callback log
    filterStatus, apartments, attachedVis, dispatched, lastClick,
    \* BuildingFloorSelector.getFillColor: arguments, props and result
    floor, isHovered, colors, fill,
    \* ImagePolygonMapper.polygonFetcher, the save requests being served by
    \* the route action, and the stored polygonData of each apartment
    fetcher, requests, db

editorVars == <<mode, currentPoints, selectedPolygonIdx, draggingVertex,
                imageDimensions, zoom, pan, isPanning, panStart, spaceHeld,
                polygons>>
viewerVars == <<filterStatus, apartments, attachedVis, dispatched, lastClick>>
colorVars  == <<floor, isHovered, colors, fill>>
saveVars   == <<fetcher, requests, db>>
vars == <<editorVars, viewerVars, colorVars, saveVars>>

----------------------------------------------------------------------------
(* Bounds of the model *)

\* the editing session holds at most this many vertices (Spec)
MaxVerts == 6
\* the same cap for the drawing scenarios (SpecDraw)
MaxDrawVerts == 4
\* numerator and denominator of zoom stay at or below this (SpecView)
MaxZoomTerm == 10100000
\* the pan offset stays within this many pixels of the origin (SpecView)
MaxPan == 10
\* the host's callback log keeps at most this many dispatches (SpecViewer)
MaxDispatched == 2
\* a floor has at most this many apartments (SpecColor)
MaxFloorApts == 3
\* the route action serves at most this many save requests at a time
MaxInFlight == 2
\* vertices of a session whose clicks fall inside the overlay (SpecSurface)
MaxSurfaceVerts == 1
\* the vertex cap and the zoom-term cap of SpecFrame
MaxFrameVerts == 5
MaxFrameZoomTerm == 100
\* the vertex cap and the zoom-term cap of SpecClamp
MaxClampVerts == 3
MaxClampZoomTerm == 6

----------------------------------------------------------------------------
(* Values *)

Null == -1
NoDrag == [polyIdx |-> Null, vertIdx |-> Null]
Modes == {"draw", "edit", "select"}
Statuses == {"AVAILABLE", "RESERVED", "SOLD", "UNAVAILABLE"}

\* 1.0 of normalized space, in thousandths
Scale == 1000
\* the closing radius 0.02, in thousandths
CloseRadius == 20

Pt(x, y) == [x |-> x, y |-> y]
\* an empty slot of a sparse JavaScript array
Hole == Pt(Null, Null)

At0(s, i) == s[i + 1]
InRange(s, i) == i >= 0 /\ i < Len(s)

Min2(a, b) == IF a < b THEN a ELSE b
Max2(a, b) == IF a > b THEN a ELSE b

\* the items handed to the editor for linking
Apartments == {"apt-1", "apt-2"}
Unlinked == ""

\* the on-screen box of the overlay at zoom 1 and pan (0,0), in pixels
SurfaceRect == [left |-> 40, top |-> 20, width |-> 1000, height |-> 500]
\* naturalWidth / naturalHeight of the background image
NaturalSize == [width |-> 2000, height |-> 1000]

Zoom(n, d) == [n |-> n, d |-> d]

RECURSIVE GCD(_, _)
GCD(a, b) == IF b = 0 THEN a ELSE GCD(b, a % b)

\* z * p/q, in lowest terms
Times(z, p, q) ==
    LET n == z.n * p
        d == z.d * q
        g == GCD(n, d)
    IN  Zoom(n \div g, d \div g)

Less(a, b) == a.n * b.d < b.n * a.d
MathMin(a, b) == IF Less(b, a) THEN b ELSE a
MathMax(a, b) == IF Less(a, b) THEN b ELSE a

----------------------------------------------------------------------------
(* Geometry *)

\* svg.getBoundingClientRect(): the overlay sits inside the element that
\* carries translate(pan) scale(zoom) with transform-origin 0 0
BoundingClientRect ==
    [left   |-> SurfaceRect.left + pan.x,
     top    |-> SurfaceRect.top + pan.y,
     wNum   |-> SurfaceRect.width * zoom.n,
     hNum   |-> SurfaceRect.height * zoom.n,
     den    |-> zoom.d]

Clamp01(v) == Max2(0, Min2(Scale, v))

\* a variant of screenToNormalized that divides by the size of the overlay
\* at zoom 1
ScreenToNormalizedUnscaled(clientX, clientY) ==
    IF imageDimensions.width = 0 THEN Pt(0, 0)
    ELSE LET rect == BoundingClientRect
             x == ((clientX - rect.left) * Scale) \div SurfaceRect.width
             y == ((clientY - rect.top) * Scale) \div SurfaceRect.height
         IN  Pt(Clamp01(x), Clamp01(y))

\* a variant of screenToNormalized without Math.max(0, Math.min(1, .))
ScreenToNormalizedUnclamped(clientX, clientY) ==
    IF imageDimensions.width = 0 THEN Pt(0, 0)
    ELSE LET rect == BoundingClientRect
             x == ((clientX - rect.left) * Scale * rect.den) \div rect.wNum
             y == ((clientY - rect.top) * Scale * rect.den) \div rect.hNum
         IN  Pt(x, y)

screenToNormalized(clientX, clientY) ==
    IF imageDimensions.width = 0 THEN Pt(0, 0)
    ELSE LET rect == BoundingClientRect
             x == ((clientX - rect.left) * Scale * rect.den) \div rect.wNum
             y == ((clientY - rect.top) * Scale * rect.den) \div rect.hNum
         IN  Pt(Clamp01(x), Clamp01(y))

\* pointsToSvg: `${p.x * 100},${p.y * 100}` on the viewBox 0 0 100 100, in
\* thousandths of a canvas unit
pointsToSvg(points) ==
    [i \in 1..Len(points) |-> Pt(points[i].x * 100, points[i].y * 100)]

\* Math.pow(pt.x - first.x, 2) + Math.pow(pt.y - first.y, 2)
SqDist(a, b) == (a.x - b.x) * (a.x - b.x) + (a.y - b.y) * (a.y - b.y)

\* a variant of NearFirst that also closes at exactly the radius
NearFirstInclusive(pt, first) == SqDist(pt, first) <= CloseRadius * CloseRadius

\* dist < 0.02 of handleSvgClick, compared on the squares
NearFirst(pt, first) == SqDist(pt, first) < CloseRadius * CloseRadius

RECURSIVE CountVerts(_)
CountVerts(ps) ==
    IF ps = <<>> THEN 0 ELSE Len(Head(ps).points) + CountVerts(Tail(ps))

TotalVerts == CountVerts(polygons) + Len(currentPoints)

\* the step does not grow the session beyond cap vertices
Within(cap) == TotalVerts' <= cap \/ TotalVerts' <= TotalVerts

----------------------------------------------------------------------------
(* Polygon store: every mutation builds a new array *)

\* a variant of RemoveAt with the predicate inverted: keeps only idx
KeepOnlyAt(ps, idx) ==
    [i \in 1..(IF InRange(ps, idx) THEN 1 ELSE 0) |-> ps[idx + 1]]

\* polygons.filter((_, i) => i !== idx)
RemoveAt(ps, idx) ==
    [i \in 1..(Len(ps) - (IF InRange(ps, idx) THEN 1 ELSE 0)) |->
        IF i <= idx THEN ps[i] ELSE ps[i + 1]]

\* points[vertIdx] = pt on a copy: replaces, appends, or leaves holes
SetPoint(points, vertIdx, pt) ==
    [i \in 1..Max2(Len(points), vertIdx + 1) |->
        IF i = vertIdx + 1 THEN pt
        ELSE IF i <= Len(points) THEN points[i] ELSE Hole]

\* new Set(polygons.map((p) => p.apartmentId).filter(Boolean))
linkedApartmentIds ==
    {polygons[i].apartmentId : i \in 1..Len(polygons)} \ {Unlinked}

\* polygons[selectedPolygonIdx], or null
HasSelectedPolygon == InRange(polygons, selectedPolygonIdx)
selectedPolygon == At0(polygons, selectedPolygonIdx)

\* a variant of OptionDisabled that leaves every option enabled
NeverDisabled(aptId) == FALSE

\* <option disabled={linkedApartmentIds.has(apt.id) && apt.id !== selectedPolygon.apartmentId}>
OptionDisabled(aptId) ==
    aptId \in linkedApartmentIds /\ aptId # selectedPolygon.apartmentId

----------------------------------------------------------------------------
(* Initial state *)

EditorInit ==
    /\ mode = "select"
    /\ currentPoints = <<>>
    /\ selectedPolygonIdx = Null
    /\ draggingVertex = NoDrag
    /\ imageDimensions = [width |-> 0, height |-> 0]
    /\ zoom = Zoom(1, 1)
    /\ pan = Pt(0, 0)
    /\ isPanning = FALSE
    /\ panStart = Pt(0, 0)
    /\ spaceHeld = FALSE

NoFilter == [defined |-> FALSE, list |-> {}]
NoClick == [apt |-> "", via |-> "", vis |-> FALSE]

ViewerIdle ==
    /\ filterStatus = NoFilter
    /\ apartments = [a \in Apartments |-> "AVAILABLE"]
    /\ attachedVis = [a \in Apartments |-> TRUE]
    /\ dispatched = <<>>
    /\ lastClick = NoClick

NoFill == [base |-> "", css |-> [kind |-> "none"]]

ColorIdle ==
    /\ floor = [found |-> FALSE, apartments |-> <<>>]
    /\ isHovered = FALSE
    /\ colors = [available |-> "", reserved |-> "", sold |-> ""]
    /\ fill = NoFill

\* apartment.polygonData: null, or the stored vertex list
NoData == [set |-> FALSE, points |-> <<>>]
Data(pts) == [set |-> TRUE, points |-> pts]

\* the apartments of the floor being edited, and one of another floor
FloorEntities == Apartments
Entities == FloorEntities \cup {"apt-9"}

\* polygonFetcher before any submit
FetcherIdle == [state |-> "idle", data |-> "none"]

SaveIdle ==
    /\ fetcher = FetcherIdle
    /\ requests = <<>>
    /\ db = [e \in Entities |-> NoData]

----------------------------------------------------------------------------
(* PolygonEditor: keyboard *)

\* keydown Space
KeyDownSpace ==
    /\ spaceHeld' = TRUE
    /\ UNCHANGED <<mode, currentPoints, selectedPolygonIdx, draggingVertex,
                   imageDimensions, zoom, pan, isPanning, panStart, polygons>>

\* a variant of handleKeyUp that leaves a pan running
KeyUpKeepsPan ==
    /\ spaceHeld' = FALSE
    /\ UNCHANGED <<mode, currentPoints, selectedPolygonIdx, draggingVertex,
                   imageDimensions, zoom, pan, isPanning, panStart, polygons>>

\* keyup Space
handleKeyUp ==
    /\ spaceHeld' = FALSE
    /\ isPanning' = FALSE
    /\ UNCHANGED <<mode, currentPoints, selectedPolygonIdx, draggingVertex,
                   imageDimensions, zoom, pan, panStart, polygons>>

\* a variant of KeyDownEscape that switches to select from every mode
EscapeAlwaysSelects ==
    /\ currentPoints' = (IF mode = "draw" THEN <<>> ELSE currentPoints)
    /\ mode' = "select"
    /\ selectedPolygonIdx' = Null
    /\ UNCHANGED <<draggingVertex, imageDimensions, zoom, pan, isPanning,
                   panStart, spaceHeld, polygons>>

\* a variant of KeyDownEscape that commits a buffer of 3 or more points
EscapeCommitsBuffer ==
    /\ IF mode = "draw" /\ Len(currentPoints) > 0
         THEN /\ currentPoints' = <<>>
              /\ mode' = "select"
              /\ polygons' =
                    (IF Len(currentPoints) >= 3
                       THEN Append(polygons, [apartmentId |-> Unlinked,
                                              points |-> currentPoints])
                       ELSE polygons)
         ELSE UNCHANGED <<currentPoints, mode, polygons>>
    /\ selectedPolygonIdx' = Null
    /\ UNCHANGED <<draggingVertex, imageDimensions, zoom, pan, isPanning,
                   panStart, spaceHeld>>

\* keydown Escape
KeyDownEscape ==
    /\ IF mode = "draw" /\ Len(currentPoints) > 0
         THEN currentPoints' = <<>> /\ mode' = "select"
         ELSE UNCHANGED <<currentPoints, mode>>
    /\ selectedPolygonIdx' = Null
    /\ UNCHANGED <<draggingVertex, imageDimensions, zoom, pan, isPanning,
                   panStart, spaceHeld, polygons>>

\* a variant of KeyDownDelete that drops the last polygon of the set
KeyDownDeleteLast ==
    /\ IF selectedPolygonIdx # Null
         THEN /\ polygons' = SubSeq(polygons, 1, Len(polygons) - 1)
              /\ selectedPolygonIdx' = Null
         ELSE UNCHANGED <<polygons, selectedPolygonIdx>>
    /\ UNCHANGED <<mode, currentPoints, draggingVertex, imageDimensions,
                   zoom, pan, isPanning, panStart, spaceHeld>>

\* keydown Delete / Backspace
KeyDownDelete ==
    /\ IF selectedPolygonIdx # Null
         THEN /\ polygons' = RemoveAt(polygons, selectedPolygonIdx)
              /\ selectedPolygonIdx' = Null
         ELSE UNCHANGED <<polygons, selectedPolygonIdx>>
    /\ UNCHANGED <<mode, currentPoints, draggingVertex, imageDimensions,
                   zoom, pan, isPanning, panStart, spaceHeld>>

----------------------------------------------------------------------------
(* PolygonEditor: pointer *)

\* img.onload of the dimension probe
ImgOnLoad ==
    /\ imageDimensions.width = 0
    /\ imageDimensions' = NaturalSize
    /\ UNCHANGED <<mode, currentPoints, selectedPolygonIdx, draggingVertex,
                   zoom, pan, isPanning, panStart, spaceHeld, polygons>>

\* a variant of SvgTakesPointer for an overlay with pointerEvents always auto
SvgAlwaysTakesPointer == TRUE

\* the overlay takes pointer events only while space is not held
\* (pointerEvents: spaceHeld ? "none" : "auto")
SvgTakesPointer == ~spaceHeld

\* a click event follows the mouseup that ended any drag
AfterMouseUp == draggingVertex = NoDrag /\ ~isPanning

\* a variant of ClosePolygon that puts the new polygon first
ClosePolygonInFront ==
    /\ polygons' = <<[apartmentId |-> Unlinked, points |-> currentPoints]>>
                       \o polygons
    /\ currentPoints' = <<>>
    /\ selectedPolygonIdx' = Len(polygons)
    /\ mode' = "select"

\* the close branch of handleSvgClick
ClosePolygon ==
    /\ polygons' = Append(polygons,
                          [apartmentId |-> Unlinked, points |-> currentPoints])
    /\ currentPoints' = <<>>
    /\ selectedPolygonIdx' = Len(polygons)
    /\ mode' = "select"

\* a variant of handleSvgClick whose closing test asks for 2 buffered points
SvgClickClosesFromTwo(clientX, clientY) ==
    /\ SvgTakesPointer /\ AfterMouseUp
    /\ IF spaceHeld \/ isPanning \/ mode # "draw"
         THEN UNCHANGED <<mode, currentPoints, selectedPolygonIdx, polygons>>
         ELSE LET pt == screenToNormalized(clientX, clientY) IN
              IF Len(currentPoints) >= 2 /\ NearFirst(pt, currentPoints[1])
                THEN ClosePolygon
                ELSE /\ currentPoints' = Append(currentPoints, pt)
                     /\ UNCHANGED <<mode, selectedPolygonIdx, polygons>>
    /\ UNCHANGED <<draggingVertex, imageDimensions, zoom, pan, isPanning,
                   panStart, spaceHeld>>

\* handleSvgClick, for a click that reaches the overlay itself (not one of
\* the polygons, whose own onClick stops propagation)
handleSvgClick(clientX, clientY) ==
    /\ SvgTakesPointer /\ AfterMouseUp
    /\ IF spaceHeld \/ isPanning \/ mode # "draw"
         THEN UNCHANGED <<mode, currentPoints, selectedPolygonIdx, polygons>>
         ELSE LET pt == screenToNormalized(clientX, clientY) IN
              IF Len(currentPoints) >= 3 /\ NearFirst(pt, currentPoints[1])
                THEN ClosePolygon
                ELSE /\ currentPoints' = Append(currentPoints, pt)
                     /\ UNCHANGED <<mode, selectedPolygonIdx, polygons>>
    /\ UNCHANGED <<draggingVertex, imageDimensions, zoom, pan, isPanning,
                   panStart, spaceHeld>>

\* a variant of PolygonOnClick that selects in every mode
PolygonClickSelectsAlways(i) ==
    /\ SvgTakesPointer /\ AfterMouseUp
    /\ InRange(polygons, i)
    /\ selectedPolygonIdx' = i
    /\ UNCHANGED <<mode, currentPoints, draggingVertex, imageDimensions,
                   zoom, pan, isPanning, panStart, spaceHeld, polygons>>

\* onClick of polygon i: the hit target is polygon i (which polygon lies
\* under the pointer is left open)
PolygonOnClick(i) ==
    /\ SvgTakesPointer /\ AfterMouseUp
    /\ InRange(polygons, i)
    /\ IF mode = "select" \/ mode = "edit"
         THEN selectedPolygonIdx' = i
         ELSE UNCHANGED selectedPolygonIdx
    /\ UNCHANGED <<mode, currentPoints, draggingVertex, imageDimensions,
                   zoom, pan, isPanning, panStart, spaceHeld, polygons>>

\* onMouseDown of the canvas container
handleMouseDown(clientX, clientY) ==
    /\ IF spaceHeld
         THEN /\ isPanning' = TRUE
              /\ panStart' = Pt(clientX - pan.x, clientY - pan.y)
         ELSE UNCHANGED <<isPanning, panStart>>
    /\ UNCHANGED <<mode, currentPoints, selectedPolygonIdx, draggingVertex,
                   imageDimensions, zoom, pan, spaceHeld, polygons>>

\* the vertex branch of handleMouseMove: spreading the points of a polygon
\* that is not there throws, and the handler ends without a change
DragVertex(clientX, clientY) ==
    IF InRange(polygons, draggingVertex.polyIdx)
      THEN LET pt == screenToNormalized(clientX, clientY)
               poly == At0(polygons, draggingVertex.polyIdx)
           IN  [polygons EXCEPT ![draggingVertex.polyIdx + 1] =
                   [poly EXCEPT !.points =
                       SetPoint(poly.points, draggingVertex.vertIdx, pt)]]
      ELSE polygons

\* onMouseMove of the canvas container
handleMouseMove(clientX, clientY) ==
    /\ IF isPanning
         THEN /\ pan' = Pt(clientX - panStart.x, clientY - panStart.y)
              /\ UNCHANGED polygons
         ELSE IF draggingVertex # NoDrag
           THEN /\ polygons' = DragVertex(clientX, clientY)
                /\ UNCHANGED pan
           ELSE UNCHANGED <<pan, polygons>>
    /\ UNCHANGED <<mode, currentPoints, selectedPolygonIdx, draggingVertex,
                   imageDimensions, zoom, isPanning, panStart, spaceHeld>>

\* a variant of handleMouseUp that ends a pan but keeps a vertex drag
MouseUpEndsPanOnly ==
    /\ isPanning' = FALSE
    /\ UNCHANGED <<mode, currentPoints, selectedPolygonIdx, draggingVertex,
                   imageDimensions, zoom, pan, panStart, spaceHeld, polygons>>

\* onMouseUp and onMouseLeave of the canvas container
handleMouseUp ==
    /\ isPanning' = FALSE
    /\ draggingVertex' = NoDrag
    /\ UNCHANGED <<mode, currentPoints, selectedPolygonIdx, imageDimensions,
                   zoom, pan, panStart, spaceHeld, polygons>>

\* a variant of HandleRendered that shows the handles of every polygon
HandleRenderedAlways(i, vi) ==
    /\ InRange(polygons, i)
    /\ InRange(At0(polygons, i).points, vi)
    /\ At0(At0(polygons, i).points, vi) # Hole

\* a vertex handle of polygon i is rendered
HandleRendered(i, vi) ==
    /\ InRange(polygons, i)
    /\ InRange(At0(polygons, i).points, vi)
    /\ At0(At0(polygons, i).points, vi) # Hole
    /\ (i = selectedPolygonIdx \/ mode = "edit")

\* onMouseDown of a vertex handle (propagation stopped)
handleVertexMouseDown(polyIdx, vertIdx) ==
    /\ SvgTakesPointer
    /\ HandleRendered(polyIdx, vertIdx)
    /\ IF mode = "edit" \/ mode = "select"
         THEN /\ draggingVertex' = [polyIdx |-> polyIdx, vertIdx |-> vertIdx]
              /\ selectedPolygonIdx' = polyIdx
         ELSE UNCHANGED <<draggingVertex, selectedPolygonIdx>>
    /\ UNCHANGED <<mode, currentPoints, imageDimensions, zoom, pan,
                   isPanning, panStart, spaceHeld, polygons>>

----------------------------------------------------------------------------
(* PolygonEditor: toolbar and selected-polygon panel.  These controls lie  *)
(* outside the canvas container: the pointer reaches them only after       *)
(* onMouseLeave has ended any drag.                                        *)

PointerOffCanvas == draggingVertex = NoDrag /\ ~isPanning

\* a variant of ModeButton that keeps the buffer when entering draw
ModeButtonKeepsBuffer(m) ==
    /\ PointerOffCanvas
    /\ mode' = m
    /\ IF m = "draw"
         THEN selectedPolygonIdx' = Null
         ELSE UNCHANGED selectedPolygonIdx
    /\ UNCHANGED <<currentPoints, draggingVertex, imageDimensions, zoom, pan,
                   isPanning, panStart, spaceHeld, polygons>>

\* a variant of ModeButton that keeps the selection when entering draw
ModeButtonKeepsSelection(m) ==
    /\ PointerOffCanvas
    /\ mode' = m
    /\ IF m = "draw"
         THEN currentPoints' = <<>>
         ELSE UNCHANGED currentPoints
    /\ UNCHANGED <<selectedPolygonIdx, draggingVertex, imageDimensions, zoom,
                   pan, isPanning, panStart, spaceHeld, polygons>>

\* onClick of a mode button
ModeButton(m) ==
    /\ PointerOffCanvas
    /\ mode' = m
    /\ IF m = "draw"
         THEN currentPoints' = <<>> /\ selectedPolygonIdx' = Null
         ELSE UNCHANGED <<currentPoints, selectedPolygonIdx>>
    /\ UNCHANGED <<draggingVertex, imageDimensions, zoom, pan, isPanning,
                   panStart, spaceHeld, polygons>>

\* {selectedPolygon && selectedPolygonIdx !== null && (...panel...)}
PanelRendered == selectedPolygonIdx # Null /\ HasSelectedPolygon

\* a variant of DeleteButton that leaves the selection where it is
DeleteButtonKeepsSelection ==
    /\ PointerOffCanvas /\ PanelRendered
    /\ polygons' = RemoveAt(polygons, selectedPolygonIdx)
    /\ UNCHANGED <<mode, currentPoints, selectedPolygonIdx, draggingVertex,
                   imageDimensions, zoom, pan, isPanning, panStart, spaceHeld>>

\* onClick of the panel's Delete button
DeleteButton ==
    /\ PointerOffCanvas /\ PanelRendered
    /\ polygons' = RemoveAt(polygons, selectedPolygonIdx)
    /\ selectedPolygonIdx' = Null
    /\ UNCHANGED <<mode, currentPoints, draggingVertex, imageDimensions,
                   zoom, pan, isPanning, panStart, spaceHeld>>

\* onClick of the panel's Deselect button
DeselectButton ==
    /\ PointerOffCanvas /\ PanelRendered
    /\ selectedPolygonIdx' = Null
    /\ UNCHANGED <<mode, currentPoints, draggingVertex, imageDimensions,
                   zoom, pan, isPanning, panStart, spaceHeld, polygons>>

\* a variant of handleLinkApartment that writes the first polygon
LinkFirstPolygon(apartmentId) ==
    /\ PointerOffCanvas /\ PanelRendered
    /\ apartmentId = Unlinked \/ ~OptionDisabled(apartmentId)
    /\ IF selectedPolygonIdx = Null
         THEN UNCHANGED polygons
         ELSE polygons' = [polygons EXCEPT ![1] =
                             [@ EXCEPT !.apartmentId = apartmentId]]
    /\ UNCHANGED <<mode, currentPoints, selectedPolygonIdx, draggingVertex,
                   imageDimensions, zoom, pan, isPanning, panStart, spaceHeld>>

\* a variant of handleLinkApartment that stores { apartmentId } without
\* spreading the selected polygon
LinkWithoutSpread(apartmentId) ==
    /\ PointerOffCanvas /\ PanelRendered
    /\ apartmentId = Unlinked \/ ~OptionDisabled(apartmentId)
    /\ IF selectedPolygonIdx = Null
         THEN UNCHANGED polygons
         ELSE polygons' = [polygons EXCEPT ![selectedPolygonIdx + 1] =
                             [apartmentId |-> apartmentId, points |-> <<>>]]
    /\ UNCHANGED <<mode, currentPoints, selectedPolygonIdx, draggingVertex,
                   imageDimensions, zoom, pan, isPanning, panStart, spaceHeld>>

\* handleLinkApartment, called by onChange of the link <select> with the
\* value of an option that is not disabled
handleLinkApartment(apartmentId) ==
    /\ PointerOffCanvas /\ PanelRendered
    /\ apartmentId = Unlinked \/ ~OptionDisabled(apartmentId)
    /\ IF selectedPolygonIdx = Null
         THEN UNCHANGED polygons
         ELSE polygons' = [polygons EXCEPT ![selectedPolygonIdx + 1] =
                             [@ EXCEPT !.apartmentId = apartmentId]]
    /\ UNCHANGED <<mode, currentPoints, selectedPolygonIdx, draggingVertex,
                   imageDimensions, zoom, pan, isPanning, panStart, spaceHeld>>

----------------------------------------------------------------------------
(* PolygonEditor: view transform *)

\* a variant of ZoomIn without the upper clamp
ZoomInUnclamped ==
    /\ zoom' = Times(zoom, 6, 5)
    /\ UNCHANGED <<mode, currentPoints, selectedPolygonIdx, draggingVertex,
                   imageDimensions, pan, isPanning, panStart, spaceHeld,
                   polygons>>

\* setZoom((z) => Math.min(z * 1.2, 5))
ZoomIn ==
    /\ zoom' = MathMin(Times(zoom, 6, 5), Zoom(5, 1))
    /\ UNCHANGED <<mode, currentPoints, selectedPolygonIdx, draggingVertex,
                   imageDimensions, pan, isPanning, panStart, spaceHeld,
                   polygons>>

\* setZoom((z) => Math.max(z / 1.2, 0.5))
ZoomOut ==
    /\ zoom' = MathMax(Times(zoom, 5, 6), Zoom(1, 2))
    /\ UNCHANGED <<mode, currentPoints, selectedPolygonIdx, draggingVertex,
                   imageDimensions, pan, isPanning, panStart, spaceHeld,
                   polygons>>

\* a variant of ResetView that also discards the draw buffer
ResetViewAndBuffer ==
    /\ zoom' = Zoom(1, 1)
    /\ pan' = Pt(0, 0)
    /\ currentPoints' = <<>>
    /\ UNCHANGED <<mode, selectedPolygonIdx, draggingVertex,
                   imageDimensions, isPanning, panStart, spaceHeld, polygons>>

\* setZoom(1); setPan({ x: 0, y: 0 })
ResetView ==
    /\ zoom' = Zoom(1, 1)
    /\ pan' = Pt(0, 0)
    /\ UNCHANGED <<mode, currentPoints, selectedPolygonIdx, draggingVertex,
                   imageDimensions, isPanning, panStart, spaceHeld, polygons>>

\* keydown Ctrl/Cmd + "=" or "+"
KeyDownZoomIn == ZoomIn
\* keydown Ctrl/Cmd + "-"
KeyDownZoomOut == ZoomOut
\* keydown Ctrl/Cmd + "0"
KeyDownZoomReset == ResetView

\* onClick of the toolbar's zoom buttons
ZoomInButton == PointerOffCanvas /\ ZoomIn
ZoomOutButton == PointerOffCanvas /\ ZoomOut
ResetButton == PointerOffCanvas /\ ResetView

\* wheel over the canvas container
handleWheel(deltaY, ctrlOrMeta) ==
    /\ IF ctrlOrMeta
         THEN LET scaled == IF deltaY > 0 THEN Times(zoom, 9, 10)
                                          ELSE Times(zoom, 11, 10)
              IN  zoom' = MathMin(MathMax(scaled, Zoom(1, 2)), Zoom(5, 1))
         ELSE UNCHANGED zoom
    /\ UNCHANGED <<mode, currentPoints, selectedPolygonIdx, draggingVertex,
                   imageDimensions, pan, isPanning, panStart, spaceHeld,
                   polygons>>

----------------------------------------------------------------------------
(* Saving: ImagePolygonMapper.handleSavePolygons and the route action      *)
(* (intent save-polygons).  Every await of the action is a separate step.  *)

\* null inside a parsed points array
JsonNull == Pt(-2, -2)

\* JSON.stringify then JSON.parse of a points array: an empty slot comes
\* back as null
JsonPoints(points) ==
    [i \in 1..Len(points) |-> IF points[i] = Hole THEN JsonNull ELSE points[i]]

\* JSON.parse(JSON.stringify(polygons))
Stringify(ps) ==
    [kind |-> "list",
     items |-> [i \in 1..Len(ps) |->
                  [apartmentId |-> ps[i].apartmentId,
                   points |-> JsonPoints(ps[i].points)]]]

\* form values that are no polygon list: text that is not JSON, no
\* "polygons" field (JSON.parse(null) is null), a JSON object, a JSON string
Malformed ==
    {[kind |-> k, items |-> <<>>] :
        k \in {"unparsable", "missing", "object", "string"}}

\* the next polygon at or after i with if (poly.apartmentId)
RECURSIVE NextLinked(_, _)
NextLinked(items, i) ==
    IF i > Len(items) THEN i
    ELSE IF items[i].apartmentId # Unlinked THEN i
    ELSE NextLinked(items, i + 1)

NewRequest(from, payload) ==
    [from |-> from, payload |-> payload, pc |-> "start", i |-> 0,
     result |-> "none"]

\* return json({ success: true, ... }) / return json({ error: ... })
Returns(q, result) == [q EXCEPT !.pc = "respond", !.result = result]

\* a variant of handleSavePolygons for a save button that is never disabled
SaveWhileSaving ==
    /\ PointerOffCanvas
    /\ fetcher' = [fetcher EXCEPT !.state = "submitting"]
    /\ requests' = Append(requests, NewRequest("editor", Stringify(polygons)))
    /\ UNCHANGED <<editorVars, db>>

\* onClick of the save button (disabled while polygonFetcher is not idle):
\* handleSavePolygons
handleSavePolygons ==
    /\ PointerOffCanvas
    /\ fetcher.state = "idle"
    /\ fetcher' = [fetcher EXCEPT !.state = "submitting"]
    /\ requests' = Append(requests, NewRequest("editor", Stringify(polygons)))
    /\ UNCHANGED <<editorVars, db>>

\* a save-polygons request from another client of the route
PostSavePolygons(payload) ==
    /\ requests' = Append(requests, NewRequest("other", payload))
    /\ UNCHANGED <<editorVars, fetcher, db>>

\* a variant of ActionClear without the updateMany
ActionWithoutClear(r, dbOk) ==
    /\ r \in 1..Len(requests)
    /\ requests[r].pc = "start"
    /\ LET q == requests[r]
           kind == q.payload.kind
           items == q.payload.items
           first == NextLinked(items, 1)
       IN  IF kind = "unparsable" \/ ~dbOk
             THEN requests' = [requests EXCEPT ![r] = Returns(q, "error")]
             ELSE requests' = [requests EXCEPT ![r] =
                        IF kind \in {"missing", "object"}
                          THEN Returns(q, "error")
                        ELSE IF first > Len(items)
                          THEN Returns(q, "success")
                        ELSE [q EXCEPT !.pc = "write", !.i = first]]
    /\ UNCHANGED <<editorVars, fetcher, db>>

\* the action up to the end of updateMany: JSON.parse, then the clear of
\* the floor's apartments, then the start of the loop; dbOk is whether the
\* database call succeeds
ActionClear(r, dbOk) ==
    /\ r \in 1..Len(requests)
    /\ requests[r].pc = "start"
    /\ LET q == requests[r]
           kind == q.payload.kind
           items == q.payload.items
           first == NextLinked(items, 1)
       IN  IF kind = "unparsable" \/ ~dbOk
             THEN /\ requests' = [requests EXCEPT ![r] = Returns(q, "error")]
                  /\ UNCHANGED db
             ELSE /\ db' = [e \in Entities |->
                              IF e \in FloorEntities THEN NoData ELSE db[e]]
                  /\ requests' = [requests EXCEPT ![r] =
                        IF kind \in {"missing", "object"}
                          THEN Returns(q, "error")
                        ELSE IF first > Len(items)
                          THEN Returns(q, "success")
                        ELSE [q EXCEPT !.pc = "write", !.i = first]]
    /\ UNCHANGED <<editorVars, fetcher>>

\* a variant of ActionWrite that stores the first polygon's points
WriteFirstPoints(r, dbOk) ==
    /\ r \in 1..Len(requests)
    /\ requests[r].pc = "write"
    /\ LET q == requests[r]
           items == q.payload.items
           poly == items[q.i]
           next == NextLinked(items, q.i + 1)
       IN  IF ~dbOk \/ poly.apartmentId \notin Entities
             THEN /\ requests' = [requests EXCEPT ![r] = Returns(q, "error")]
                  /\ UNCHANGED db
             ELSE /\ db' = [db EXCEPT ![poly.apartmentId] =
                                          Data(items[1].points)]
                  /\ requests' = [requests EXCEPT ![r] =
                        IF next > Len(items)
                          THEN Returns(q, "success")
                          ELSE [q EXCEPT !.i = next]]
    /\ UNCHANGED <<editorVars, fetcher>>

\* one prisma.apartment.update of the loop, and the loop up to the next one
ActionWrite(r, dbOk) ==
    /\ r \in 1..Len(requests)
    /\ requests[r].pc = "write"
    /\ LET q == requests[r]
           items == q.payload.items
           poly == items[q.i]
           next == NextLinked(items, q.i + 1)
       IN  IF ~dbOk \/ poly.apartmentId \notin Entities
             THEN /\ requests' = [requests EXCEPT ![r] = Returns(q, "error")]
                  /\ UNCHANGED db
             ELSE /\ db' = [db EXCEPT ![poly.apartmentId] = Data(poly.points)]
                  /\ requests' = [requests EXCEPT ![r] =
                        IF next > Len(items)
                          THEN Returns(q, "success")
                          ELSE [q EXCEPT !.i = next]]
    /\ UNCHANGED <<editorVars, fetcher>>

\* the floor's apartments in the order the loader returns them
FloorApartmentOrder == <<"apt-1", "apt-2">>

\* FloorCard.initialPolygons
InitialPolygons(stored) ==
    LET Mapped(a) == stored[a].set /\ Len(stored[a].points) >= 3
        kept == SelectSeq(FloorApartmentOrder, Mapped)
    IN  [i \in 1..Len(kept) |->
            [apartmentId |-> kept[i], points |-> stored[kept[i]].points]]

\* a variant of Respond that puts the editor back to the stored polygons
\* when the save failed
RespondRollsBack(r) ==
    /\ r \in 1..Len(requests)
    /\ requests[r].pc = "respond"
    /\ requests' = RemoveAt(requests, r - 1)
    /\ fetcher' = (IF requests[r].from = "editor"
                     THEN [state |-> "idle", data |-> requests[r].result]
                     ELSE fetcher)
    /\ polygons' = (IF requests[r].result = "error"
                      THEN InitialPolygons(db)
                      ELSE polygons)
    /\ selectedPolygonIdx' = Null
    /\ UNCHANGED <<mode, currentPoints, draggingVertex, imageDimensions,
                   zoom, pan, isPanning, panStart, spaceHeld, db>>

\* the response reaches its client; polygonFetcher goes back to idle with
\* the result as its data
Respond(r) ==
    /\ r \in 1..Len(requests)
    /\ requests[r].pc = "respond"
    /\ requests' = RemoveAt(requests, r - 1)
    /\ fetcher' = (IF requests[r].from = "editor"
                     THEN [state |-> "idle", data |-> requests[r].result]
                     ELSE fetcher)
    /\ UNCHANGED <<editorVars, db>>

----------------------------------------------------------------------------
(* Read-only viewers *)

\* the values the filterStatus prop takes: undefined, or a list of statuses
FilterStates ==
    {NoFilter} \cup {[defined |-> TRUE, list |-> l] : l \in SUBSET Statuses}

\* filters.status of the host page before any toggle
DefaultFilter ==
    [defined |-> TRUE, list |-> {"AVAILABLE", "RESERVED", "SOLD"}]

\* a variant of isVisible that ignores the filter
AlwaysVisible(apt) == TRUE

\* InteractiveFloorPlan.isVisible
isVisible(apt) ==
    ~filterStatus.defined \/ apartments[apt] \in filterStatus.list

\* onApartmentClick?.(apt)
onApartmentClick(apt) ==
    dispatched' = Append(dispatched, [id |-> apt, status |-> apartments[apt]])

\* the host page re-renders the viewer with another filter; the legacy
\* variant attaches its handlers again, each with its own `vis`
SetFilterStatus(f) ==
    /\ filterStatus' = f
    /\ attachedVis' =
         [a \in Apartments |-> ~f.defined \/ apartments[a] \in f.list]
    /\ UNCHANGED <<apartments, dispatched, lastClick>>

\* InteractiveFloorPlan.handlePolygonClick (image overlay)
handlePolygonClick(apt) ==
    /\ lastClick' = [apt |-> apt, via |-> "image", vis |-> isVisible(apt)]
    /\ IF ~isVisible(apt) \/ apartments[apt] = "UNAVAILABLE"
         THEN UNCHANGED dispatched
         ELSE onApartmentClick(apt)
    /\ UNCHANGED <<filterStatus, apartments, attachedVis>>

\* a variant of LegacyOnClick whose handlers are attached once, under the
\* first filter
LegacyClickAttachedOnce(apt) ==
    LET vis == apartments[apt] \in DefaultFilter.list
    IN  /\ lastClick' = [apt |-> apt, via |-> "legacy", vis |-> vis]
        /\ IF vis /\ apartments[apt] # "UNAVAILABLE"
             THEN onApartmentClick(apt)
             ELSE UNCHANGED dispatched
        /\ UNCHANGED <<filterStatus, apartments, attachedVis>>

\* LegacySvgFloorPlan: el.onclick as attached by attachHandlers
LegacyOnClick(apt) ==
    /\ lastClick' = [apt |-> apt, via |-> "legacy", vis |-> attachedVis[apt]]
    /\ IF attachedVis[apt] /\ apartments[apt] # "UNAVAILABLE"
         THEN onApartmentClick(apt)
         ELSE UNCHANGED dispatched
    /\ UNCHANGED <<filterStatus, apartments, attachedVis>>

\* a variant of handleClick without the UNAVAILABLE test
ClickIgnoringStatus(apt) ==
    LET filteredOut ==
            filterStatus.defined /\ apartments[apt] \notin filterStatus.list
    IN  /\ lastClick' = [apt |-> apt, via |-> "viewer", vis |-> ~filteredOut]
        /\ IF filteredOut
             THEN UNCHANGED dispatched
             ELSE onApartmentClick(apt)
        /\ UNCHANGED <<filterStatus, apartments, attachedVis>>

\* FloorPlanViewer.handleClick
handleClick(apt) ==
    LET filteredOut ==
            filterStatus.defined /\ apartments[apt] \notin filterStatus.list
    IN  /\ lastClick' = [apt |-> apt, via |-> "viewer", vis |-> ~filteredOut]
        /\ IF filteredOut
             THEN UNCHANGED dispatched
             ELSE IF apartments[apt] = "UNAVAILABLE"
               THEN UNCHANGED dispatched
               ELSE onApartmentClick(apt)
        /\ UNCHANGED <<filterStatus, apartments, attachedVis>>

----------------------------------------------------------------------------
(* BuildingFloorSelector: fill colour of a floor region *)

\* colour strings in #rrggbb / #rgb form
HexColors == {"#22c55e", "#ef4444", "#f59e0b", "#9ca3af", "#0f0", "#ff0000"}
\* colour strings in rgb(...) / rgba(...) form
FunctionalColors == {"rgba(100,130,255,0.2)"}

\* the red, green and blue channels the parsers read from a colour string
Channels(c) ==
    CASE c = "#22c55e" -> <<34, 197, 94>>
      [] c = "#ef4444" -> <<239, 68, 68>>
      [] c = "#f59e0b" -> <<245, 158, 11>>
      [] c = "#9ca3af" -> <<156, 163, 175>>
      [] c = "#0f0" -> <<0, 255, 0>>
      [] c = "#ff0000" -> <<255, 0, 0>>
      [] c = "rgba(100,130,255,0.2)" -> <<100, 130, 255>>

\* utils/colors.ensureRgba; alpha in hundredths
ensureRgba(color, alpha) ==
    IF color = ""
      THEN [kind |-> "rgba", rgb |-> <<0, 0, 0>>, alpha |-> alpha, text |-> ""]
      ELSE IF color \in HexColors \cup FunctionalColors
        THEN [kind |-> "rgba", rgb |-> Channels(color), alpha |-> alpha,
              text |-> ""]
        ELSE [kind |-> "raw", rgb |-> <<>>, alpha |-> 0, text |-> color]

\* colors.slot || fallback
Or(value, fallback) == IF value # "" THEN value ELSE fallback

\* a[i] for the i with a.status === "AVAILABLE"
RECURSIVE CountAvailable(_)
CountAvailable(apts) ==
    IF apts = <<>> THEN 0
    ELSE (IF Head(apts) = "AVAILABLE" THEN 1 ELSE 0)
            + CountAvailable(Tail(apts))

\* a variant of getFillColor that tests "all sold" as "not all available"
FillColorSoldWhenMixed(fl, hovered) ==
    IF ~fl.found
      THEN [base |-> "rgba(100,130,255,0.2)",
            css |-> ensureRgba("rgba(100,130,255,0.2)",
                               IF hovered THEN 55 ELSE 20)]
      ELSE LET available == CountAvailable(fl.apartments)
               total == Len(fl.apartments)
               baseColor ==
                   IF total = 0 THEN Or(colors.available, "#22c55e")
                   ELSE IF available < total THEN Or(colors.sold, "#ef4444")
                   ELSE Or(colors.available, "#22c55e")
           IN  [base |-> baseColor,
                css |-> ensureRgba(baseColor, IF hovered THEN 55 ELSE 30)]

\* BuildingFloorSelector.getFillColor: the base colour it picks and the
\* string it returns
getFillColor(fl, hovered) ==
    IF ~fl.found
      THEN [base |-> "rgba(100,130,255,0.2)",
            css |-> ensureRgba("rgba(100,130,255,0.2)",
                               IF hovered THEN 55 ELSE 20)]
      ELSE LET available == CountAvailable(fl.apartments)
               total == Len(fl.apartments)
               baseColor ==
                   IF total = 0 THEN Or(colors.available, "#22c55e")
                   ELSE IF available = 0 THEN Or(colors.sold, "#ef4444")
                   ELSE IF available < total
                     THEN Or(colors.reserved, "#f59e0b")
                   ELSE Or(colors.available, "#22c55e")
           IN  [base |-> baseColor,
                css |-> ensureRgba(baseColor, IF hovered THEN 55 ELSE 30)]

\* the floor a region's floorId resolves to through floorMap: none, or a
\* floor with its apartments' statuses
RECURSIVE StatusLists(_)
StatusLists(n) ==
    IF n = 0 THEN {<<>>}
    ELSE LET shorter == StatusLists(n - 1)
         IN  shorter \cup {Append(l, st) : l \in shorter, st \in Statuses}

Floors ==
    {[found |-> FALSE, apartments |-> <<>>]}
      \cup {[found |-> TRUE, apartments |-> l] : l \in StatusLists(MaxFloorApts)}

\* the colors prop: each slot absent or overridden by the host
ColorProps ==
    [available : {"", "#0f0"}, reserved : {"", "teal"}, sold : {"", "#ff0000"}]

\* the region is rendered: fill={getFillColor(floor, isHovered)}
RenderRegion(fl, hovered) ==
    /\ floor' = fl
    /\ isHovered' = hovered
    /\ fill' = getFillColor(fl, hovered)
    /\ UNCHANGED colors

\* onMouseEnter of the region (setHoveredFloorId(poly.floorId))
RegionMouseEnter == ~isHovered /\ RenderRegion(floor, TRUE)
\* onMouseLeave of the region (setHoveredFloorId(null))
RegionMouseLeave == isHovered /\ RenderRegion(floor, FALSE)
\* the host page passes another floors prop
FloorsChange(fl) == fl # floor /\ RenderRegion(fl, isHovered)

\* floor?.number
floorNumber(fl) ==
    IF fl.found THEN [defined |-> TRUE, value |-> fl.number]
                ELSE [defined |-> FALSE, value |-> 0]

\* onFloorClick(floorNumber) of the host page
onFloorClick(number) == dispatched' = Append(dispatched, number)

\* a variant of FloorRegionOnClick that calls onFloorClick whatever the
\* lookup returned
FloorClickUnguarded ==
    /\ lastClick' = [apt |-> "floor-1", via |-> "selector", vis |-> floor.found]
    /\ onFloorClick(floorNumber(floor).value)
    /\ UNCHANGED <<filterStatus, apartments, attachedVis>>

\* onClick of the floor region:
\* floorNumber !== undefined && onFloorClick(floorNumber)
FloorRegionOnClick ==
    /\ lastClick' = [apt |-> "floor-1", via |-> "selector", vis |-> floor.found]
    /\ IF floorNumber(floor).defined
         THEN onFloorClick(floorNumber(floor).value)
         ELSE UNCHANGED dispatched
    /\ UNCHANGED <<filterStatus, apartments, attachedVis>>

----------------------------------------------------------------------------
(* Spec: an editing session over a loaded polygon set *)

A0 == Pt(0, 0)
B0 == Pt(300, 300)
C0 == Pt(300, 0)

\* initialPolygons as the host page builds them from stored data
LoadedSets ==
    { <<>>,
      << [apartmentId |-> "apt-1", points |-> <<A0, C0, B0>>] >>,
      << [apartmentId |-> "apt-1", points |-> <<A0, C0, B0>>],
         [apartmentId |-> Unlinked, points |-> <<C0, B0, A0>>] >> }

\* pointer positions (clientX, clientY): one left of and above the overlay
\* (clamped to (0,0)), one inside it (normalized (0.3,0.3))
ClickPts == { Pt(30, 10), Pt(340, 170) }

Init ==
    /\ EditorInit
    /\ polygons \in LoadedSets
    /\ ViewerIdle
    /\ ColorIdle
    /\ SaveIdle

SvgClick == \E c \in ClickPts : handleSvgClick(c.x, c.y) /\ Within(MaxVerts)
PolygonClick == \E i \in 0..(Len(polygons) - 1) : PolygonOnClick(i)
MouseMove == \E c \in ClickPts : handleMouseMove(c.x, c.y)
VertexMouseDown ==
    \E i \in 0..(Len(polygons) - 1) :
        \E vi \in 0..(Len(At0(polygons, i).points) - 1) :
            handleVertexMouseDown(i, vi)
PickMode == \E m \in Modes : ModeButton(m)
LinkApartment == \E a \in Apartments \cup {Unlinked} : handleLinkApartment(a)

EditorStep(A) == A /\ UNCHANGED <<viewerVars, colorVars, saveVars>>

Next ==
    \/ EditorStep(ImgOnLoad)
    \/ EditorStep(KeyDownEscape)
    \/ EditorStep(KeyDownDelete)
    \/ EditorStep(SvgClick)
    \/ EditorStep(PolygonClick)
    \/ EditorStep(MouseMove)
    \/ EditorStep(handleMouseUp)
    \/ EditorStep(VertexMouseDown)
    \/ EditorStep(PickMode)
    \/ EditorStep(DeleteButton)
    \/ EditorStep(DeselectButton)
    \/ EditorStep(LinkApartment)

Spec == Init /\ [][Next]_vars

----------------------------------------------------------------------------
(* SpecDraw: drawing from an empty set, with pointer positions on both     *)
(* sides of the closing radius around a first point at x = 0               *)

\* clientX, clientY of: F (0, 0.1), N (0.01, 0.1), E (0.02, 0.1),
\* O (0.021, 0.1), Q (0.3, 0.3)
DrawPts == { Pt(40, 70), Pt(50, 70), Pt(60, 70), Pt(61, 70), Pt(340, 170) }

InitDraw ==
    /\ EditorInit
    /\ polygons = <<>>
    /\ ViewerIdle
    /\ ColorIdle
    /\ SaveIdle

DrawSvgClick ==
    \E c \in DrawPts : handleSvgClick(c.x, c.y) /\ Within(MaxDrawVerts)
DrawMouseMove == \E c \in DrawPts : handleMouseMove(c.x, c.y)

NextDraw ==
    \/ EditorStep(ImgOnLoad)
    \/ EditorStep(KeyDownEscape)
    \/ EditorStep(KeyDownDelete)
    \/ EditorStep(DrawSvgClick)
    \/ EditorStep(PolygonClick)
    \/ EditorStep(DrawMouseMove)
    \/ EditorStep(handleMouseUp)
    \/ EditorStep(VertexMouseDown)
    \/ EditorStep(PickMode)
    \/ EditorStep(DeleteButton)
    \/ EditorStep(DeselectButton)
    \/ EditorStep(LinkApartment)

SpecDraw == InitDraw /\ [][NextDraw]_vars

----------------------------------------------------------------------------
(* SpecTrace: the square (0.1,0.1) (0.1,0.3) (0.3,0.3) (0.3,0.1) and a     *)
(* pointer position near its first corner                                  *)

S1 == Pt(100, 100)
S2 == Pt(100, 300)
S3 == Pt(300, 300)
S4 == Pt(300, 100)
Square == <<S1, S2, S3, S4>>

\* clientX, clientY of S1, S2, S3, S4 and of (0.11, 0.1)
TracePts == { Pt(140, 70), Pt(140, 170), Pt(340, 170), Pt(340, 70),
              Pt(150, 70) }

TraceSvgClick ==
    \E c \in TracePts : handleSvgClick(c.x, c.y) /\ Within(MaxDrawVerts)

NextTrace ==
    \/ EditorStep(ImgOnLoad)
    \/ EditorStep(KeyDownEscape)
    \/ EditorStep(KeyDownDelete)
    \/ EditorStep(TraceSvgClick)
    \/ EditorStep(PolygonClick)
    \/ EditorStep(PickMode)
    \/ EditorStep(DeleteButton)
    \/ EditorStep(DeselectButton)
    \/ EditorStep(LinkApartment)

SpecTrace == InitDraw /\ [][NextTrace]_vars

----------------------------------------------------------------------------
(* SpecStale: an editing session over a quadrilateral followed by a        *)
(* triangle, so that a delete moves a shorter polygon into a lower index   *)

D0 == Pt(0, 300)

\* initialPolygons: a linked quadrilateral and a linked triangle
LoadedQuadAndTriangle ==
    << [apartmentId |-> "apt-1", points |-> <<A0, C0, B0, D0>>],
       [apartmentId |-> "apt-2", points |-> <<C0, B0, A0>>] >>

InitStale ==
    /\ EditorInit
    /\ polygons = LoadedQuadAndTriangle
    /\ ViewerIdle
    /\ ColorIdle
    /\ SaveIdle

SpecStale == InitStale /\ [][Next]_vars

----------------------------------------------------------------------------
(* SpecView: zooming and panning over a loaded polygon set *)

\* pointer positions (clientX, clientY) of a pan drag
PanPts == { Pt(100, 100), Pt(110, 95) }

ViewFits ==
    /\ zoom'.n <= MaxZoomTerm /\ zoom'.d <= MaxZoomTerm
    /\ pan'.x <= MaxPan /\ pan'.x >= -MaxPan
    /\ pan'.y <= MaxPan /\ pan'.y >= -MaxPan

Wheel == \E deltaY \in {-100, 100} : \E k \in BOOLEAN : handleWheel(deltaY, k)
ViewMouseDown == \E c \in PanPts : handleMouseDown(c.x, c.y)
ViewMouseMove == \E c \in PanPts : handleMouseMove(c.x, c.y)

ViewStep(A) == EditorStep(A) /\ ViewFits

NextView ==
    \/ ViewStep(ImgOnLoad)
    \/ ViewStep(KeyDownSpace)
    \/ ViewStep(handleKeyUp)
    \/ ViewStep(KeyDownZoomIn)
    \/ ViewStep(KeyDownZoomOut)
    \/ ViewStep(KeyDownZoomReset)
    \/ ViewStep(ZoomInButton)
    \/ ViewStep(ZoomOutButton)
    \/ ViewStep(ResetButton)
    \/ ViewStep(Wheel)
    \/ ViewStep(ViewMouseDown)
    \/ ViewStep(ViewMouseMove)
    \/ ViewStep(handleMouseUp)

SpecView == Init /\ [][NextView]_vars

----------------------------------------------------------------------------
(* SpecFrame: zooming and panning while a polygon is loaded and another is *)
(* being drawn                                                             *)

\* pointer positions that lie beyond the overlay's corners at every zoom
\* and pan; they normalize to (0,0) and (1,1)
FramePts == { Pt(0, 0), Pt(10000, 10000) }

InitFrame ==
    /\ EditorInit
    /\ polygons = << [apartmentId |-> "apt-1", points |-> <<A0, C0, B0>>] >>
    /\ ViewerIdle
    /\ ColorIdle
    /\ SaveIdle

FrameFits ==
    /\ zoom'.n <= MaxFrameZoomTerm /\ zoom'.d <= MaxFrameZoomTerm
    /\ pan'.x <= MaxPan /\ pan'.x >= -MaxPan
    /\ pan'.y <= MaxPan /\ pan'.y >= -MaxPan

FrameSvgClick ==
    \E c \in FramePts : handleSvgClick(c.x, c.y) /\ Within(MaxFrameVerts)

FrameStep(A) == EditorStep(A) /\ FrameFits

NextFrame ==
    \/ FrameStep(ImgOnLoad)
    \/ FrameStep(PickMode)
    \/ FrameStep(FrameSvgClick)
    \/ FrameStep(KeyDownEscape)
    \/ FrameStep(KeyDownSpace)
    \/ FrameStep(handleKeyUp)
    \/ FrameStep(KeyDownZoomIn)
    \/ FrameStep(KeyDownZoomOut)
    \/ FrameStep(KeyDownZoomReset)
    \/ FrameStep(ZoomInButton)
    \/ FrameStep(ZoomOutButton)
    \/ FrameStep(ResetButton)
    \/ FrameStep(Wheel)
    \/ FrameStep(ViewMouseDown)
    \/ FrameStep(ViewMouseMove)
    \/ FrameStep(handleMouseUp)

SpecFrame == InitFrame /\ [][NextFrame]_vars

----------------------------------------------------------------------------
(* SpecSurface: draw clicks inside the overlay at every zoom and pan       *)

\* pointer positions (clientX, clientY) that lie inside the overlay at every
\* zoom and pan of the session
SurfacePts == { Pt(290, 145), Pt(50, 260) }

SurfaceSvgClick ==
    \E c \in SurfacePts : handleSvgClick(c.x, c.y) /\ Within(MaxSurfaceVerts)

NextSurface ==
    \/ FrameStep(ImgOnLoad)
    \/ FrameStep(PickMode)
    \/ FrameStep(SurfaceSvgClick)
    \/ FrameStep(KeyDownEscape)
    \/ FrameStep(KeyDownSpace)
    \/ FrameStep(handleKeyUp)
    \/ FrameStep(ZoomInButton)
    \/ FrameStep(ZoomOutButton)
    \/ FrameStep(ResetButton)
    \/ FrameStep(Wheel)
    \/ FrameStep(ViewMouseDown)
    \/ FrameStep(ViewMouseMove)
    \/ FrameStep(handleMouseUp)

SpecSurface == InitDraw /\ [][NextSurface]_vars

----------------------------------------------------------------------------
(* SpecSave: linking, deleting and saving a floor's polygons; database     *)
(* calls may fail                                                          *)

\* what is stored before the page is loaded
StoredBefore ==
    {[e \in Entities |->
         IF e = "apt-1" THEN one
         ELSE IF e = "apt-2" THEN two
         ELSE Data(<<A0, B0, C0>>)] :
       one \in {NoData, Data(<<A0, C0, B0>>)},
       two \in {NoData, Data(<<C0, B0, D0>>)}}

InitSave ==
    /\ EditorInit
    /\ ViewerIdle
    /\ ColorIdle
    /\ fetcher = FetcherIdle
    /\ requests = <<>>
    /\ db \in StoredBefore
    /\ polygons = InitialPolygons(db)

SaveStep(A) ==
    /\ A
    /\ Len(requests') <= MaxInFlight
    /\ UNCHANGED <<viewerVars, colorVars>>

NextSave ==
    \/ EditorStep(PolygonClick)
    \/ EditorStep(LinkApartment)
    \/ EditorStep(KeyDownDelete)
    \/ EditorStep(DeleteButton)
    \/ EditorStep(DeselectButton)
    \/ SaveStep(handleSavePolygons)
    \/ SaveStep(\E r \in 1..Len(requests) : \E ok \in BOOLEAN : ActionClear(r, ok))
    \/ SaveStep(\E r \in 1..Len(requests) : \E ok \in BOOLEAN : ActionWrite(r, ok))
    \/ SaveStep(\E r \in 1..Len(requests) : Respond(r))

SpecSave == InitSave /\ [][NextSave]_vars

----------------------------------------------------------------------------
(* SpecPost: save-polygons requests with well-formed and malformed form    *)
(* values, served by the route action                                      *)

\* the polygon lists a page loaded from some stored state would submit
WellFormed == {Stringify(InitialPolygons(stored)) : stored \in StoredBefore}

\* a polygon list for this floor one of whose polygons names an apartment
\* of another floor as its apartmentId
ForeignLinked ==
    {Stringify(<< [apartmentId |-> "apt-1", points |-> <<A0, C0, B0>>],
                  [apartmentId |-> "apt-9", points |-> <<C0, B0, D0>>] >>)}

NextPost ==
    \/ SaveStep(\E payload \in WellFormed \cup Malformed \cup ForeignLinked :
                   PostSavePolygons(payload))
    \/ SaveStep(\E r \in 1..Len(requests) : \E ok \in BOOLEAN : ActionClear(r, ok))
    \/ SaveStep(\E r \in 1..Len(requests) : \E ok \in BOOLEAN : ActionWrite(r, ok))
    \/ SaveStep(\E r \in 1..Len(requests) : Respond(r))

SpecPost == InitSave /\ [][NextPost]_vars

----------------------------------------------------------------------------
(* Status colours: the project's settings, the host page's viewerColors    *)
(* and getStatusColor / getStatusStroke of the viewer                      *)

\* STATUS_HEX
STATUS_HEX(status) ==
    CASE status = "AVAILABLE" -> "#22c55e"
      [] status = "RESERVED" -> "#f59e0b"
      [] status = "SOLD" -> "#ef4444"
      [] status = "UNAVAILABLE" -> "#9ca3af"

\* the project's colour settings: each null ("") or set by the owner
ProjectColors ==
    [available : {"", "#0f0"}, reserved : {"", "teal"}, sold : {"", "#ff0000"},
     unavailable : {"", "rgba(100,130,255,0.2)"}]

\* a variant of viewerColors that hands the project's settings on as they are
ViewerColorsUnmerged(project) == project

\* viewerColors of the host page: project.xColor ?? DEFAULT_VIEWER_COLORS.x
viewerColors(project) ==
    [available |-> IF project.available # "" THEN project.available
                   ELSE STATUS_HEX("AVAILABLE"),
     reserved |-> IF project.reserved # "" THEN project.reserved
                  ELSE STATUS_HEX("RESERVED"),
     sold |-> IF project.sold # "" THEN project.sold
              ELSE STATUS_HEX("SOLD"),
     unavailable |-> IF project.unavailable # "" THEN project.unavailable
                     ELSE STATUS_HEX("UNAVAILABLE")]

\* map[status] || colors.unavailable || STATUS_HEX.UNAVAILABLE
getStatusStroke(status, cols) ==
    LET map == CASE status = "AVAILABLE" -> cols.available
                 [] status = "RESERVED" -> cols.reserved
                 [] status = "SOLD" -> cols.sold
                 [] status = "UNAVAILABLE" -> cols.unavailable
                 [] OTHER -> ""
    IN  Or(map, Or(cols.unavailable, STATUS_HEX("UNAVAILABLE")))

\* utils/colors.getStatusColor; alpha in hundredths
getStatusColor(status, cols, alpha) ==
    ensureRgba(getStatusStroke(status, cols), alpha)

\* the polygon of an apartment as InteractiveFloorPlan renders it under the
\* project's settings
RenderApartment(apt, project, visible, isSelected) ==
    LET cols == viewerColors(project)
        alpha == IF visible THEN (IF isSelected THEN 55 ELSE 35) ELSE 10
    IN  [base |-> getStatusStroke(apartments[apt], cols),
         css |-> getStatusColor(apartments[apt], cols, alpha),
         stroke |-> IF isSelected THEN "#2563eb"
                    ELSE getStatusStroke(apartments[apt], cols)]

\* the owner saves other colour settings; the page renders again
ProjectColorsChange(project, isSelected) ==
    /\ project # colors
    /\ colors' = project
    /\ fill' = RenderApartment("apt-1", project, isVisible("apt-1"), isSelected)
    /\ UNCHANGED <<floor, isHovered, viewerVars>>

\* the host page toggles a status filter; the page renders again
StatusFilterChange(f, isSelected) ==
    /\ f # filterStatus
    /\ SetFilterStatus(f)
    /\ fill' = RenderApartment("apt-1", colors,
                                ~f.defined \/ apartments["apt-1"] \in f.list,
                                isSelected)
    /\ UNCHANGED <<floor, isHovered, colors>>

----------------------------------------------------------------------------
(* SpecStatus: the fill of one apartment polygon of InteractiveFloorPlan   *)
(* under every setting of the project's colours                            *)

InitStatus ==
    /\ EditorInit
    /\ polygons = <<>>
    /\ SaveIdle
    /\ filterStatus = DefaultFilter
    /\ apartments \in [Apartments -> Statuses]
    /\ attachedVis = [a \in Apartments |-> apartments[a] \in DefaultFilter.list]
    /\ dispatched = <<>>
    /\ lastClick = NoClick
    /\ floor = [found |-> FALSE, apartments |-> <<>>]
    /\ isHovered = FALSE
    /\ colors = [available |-> "", reserved |-> "", sold |-> "",
                 unavailable |-> ""]
    /\ fill = RenderApartment("apt-1", colors, isVisible("apt-1"), FALSE)

NextStatus ==
    \/ /\ \E project \in ProjectColors : \E isSelected \in BOOLEAN :
             ProjectColorsChange(project, isSelected)
       /\ UNCHANGED <<editorVars, saveVars>>
    \/ /\ \E f \in FilterStates : \E isSelected \in BOOLEAN :
             StatusFilterChange(f, isSelected)
       /\ UNCHANGED <<editorVars, saveVars>>

SpecStatus == InitStatus /\ [][NextStatus]_vars

----------------------------------------------------------------------------
(* SpecViewer: clicks on apartment regions of the read-only viewers *)

InitViewer ==
    /\ EditorInit
    /\ polygons = <<>>
    /\ ColorIdle
    /\ SaveIdle
    /\ filterStatus = DefaultFilter
    /\ apartments \in [Apartments -> Statuses]
    /\ attachedVis = [a \in Apartments |-> apartments[a] \in DefaultFilter.list]
    /\ dispatched = <<>>
    /\ lastClick = NoClick

ViewerStep(A) ==
    /\ A
    /\ Len(dispatched') <= MaxDispatched
    /\ UNCHANGED <<editorVars, colorVars, saveVars>>

FilterChange == \E f \in FilterStates : SetFilterStatus(f)
ImageRegionClick == \E a \in Apartments : handlePolygonClick(a)
LegacyRegionClick == \E a \in Apartments : LegacyOnClick(a)
ViewerRegionClick == \E a \in Apartments : handleClick(a)

NextViewer ==
    \/ ViewerStep(FilterChange)
    \/ ViewerStep(ImageRegionClick)
    \/ ViewerStep(LegacyRegionClick)
    \/ ViewerStep(ViewerRegionClick)

SpecViewer == InitViewer /\ [][NextViewer]_vars

----------------------------------------------------------------------------
(* SpecColor: the fill of one floor region of BuildingFloorSelector *)

InitColor ==
    /\ EditorInit
    /\ polygons = <<>>
    /\ ViewerIdle
    /\ SaveIdle
    /\ colors \in ColorProps
    /\ floor = [found |-> FALSE, apartments |-> <<>>]
    /\ isHovered = FALSE
    /\ fill = getFillColor(floor, FALSE)

ColorStep(A) == A /\ UNCHANGED <<editorVars, viewerVars, saveVars>>

NextColor ==
    \/ ColorStep(RegionMouseEnter)
    \/ ColorStep(RegionMouseLeave)
    \/ ColorStep(\E fl \in Floors : FloorsChange(fl))

SpecColor == InitColor /\ [][NextColor]_vars

----------------------------------------------------------------------------
(* SpecSelector: one floor region of BuildingFloorSelector, its fill and   *)
(* its clicks, while the floors prop changes                               *)

\* what floorMap.get(poly.apartmentId) returns: undefined, or a floor with
\* its number and its apartments' statuses
SelectorFloors ==
    {[found |-> FALSE, apartments |-> <<>>, number |-> 0]}
      \cup {[found |-> TRUE, apartments |-> l, number |-> n] :
               l \in StatusLists(1), n \in {0, 2}}

InitSelector ==
    /\ EditorInit
    /\ polygons = <<>>
    /\ ViewerIdle
    /\ SaveIdle
    /\ colors \in ColorProps
    /\ floor = [found |-> FALSE, apartments |-> <<>>, number |-> 0]
    /\ isHovered = FALSE
    /\ fill = getFillColor(floor, FALSE)

NextSelector ==
    \/ ColorStep(RegionMouseEnter)
    \/ ColorStep(RegionMouseLeave)
    \/ ColorStep(\E fl \in SelectorFloors : FloorsChange(fl))
    \/ /\ FloorRegionOnClick
       /\ Len(dispatched') <= MaxDispatched
       /\ UNCHANGED <<editorVars, colorVars, saveVars>>

SpecSelector == InitSelector /\ [][NextSelector]_vars

----------------------------------------------------------------------------
(* Properties of the editing session (Spec) *)

PolyIdxs == 0..(Len(polygons) - 1)

\* C6: each pointer move during a vertex drag at (polyIdx, vertIdx) yields a
\* polygon set that differs from the previous one in exactly that vertex,
\* which becomes the clamped normalized pointer position; the dragged vertex
\* therefore exists for as long as the drag lasts.  Every other vertex, every
\* polygon's link, the number of polygons and their order stay the same.
C6_DragChangesExactlyOneVertex ==
    /\ [](draggingVertex # NoDrag =>
            /\ InRange(polygons, draggingVertex.polyIdx)
            /\ InRange(At0(polygons, draggingVertex.polyIdx).points,
                       draggingVertex.vertIdx))
    /\ [][\A c \in ClickPts :
            (draggingVertex # NoDrag /\ ~isPanning
                /\ handleMouseMove(c.x, c.y)) =>
              /\ Len(polygons') = Len(polygons)
              /\ \A i \in 1..Len(polygons) :
                   /\ polygons'[i].apartmentId = polygons[i].apartmentId
                   /\ Len(polygons'[i].points) = Len(polygons[i].points)
                   /\ \A j \in 1..Len(polygons[i].points) :
                        polygons'[i].points[j] =
                          IF i = draggingVertex.polyIdx + 1
                               /\ j = draggingVertex.vertIdx + 1
                            THEN screenToNormalized(c.x, c.y)
                            ELSE polygons[i].points[j]]_vars

\* C7: whenever a polygon A is linked to an item E and another polygon B is
\* the selection, the link control shows E disabled; and a change made
\* through the link control writes the selected polygon only, so A keeps
\* its link.
C7_LinkedElsewhereIsDisabled ==
    /\ [](\A a \in PolyIdxs : \A b \in PolyIdxs :
            (a # b /\ selectedPolygonIdx = b /\ PanelRendered
                /\ At0(polygons, a).apartmentId # Unlinked)
              => OptionDisabled(At0(polygons, a).apartmentId))
    /\ [][\A e \in Apartments \cup {Unlinked} :
            handleLinkApartment(e) =>
              /\ Len(polygons') = Len(polygons)
              /\ \A a \in PolyIdxs :
                   a # selectedPolygonIdx =>
                     At0(polygons', a) = At0(polygons, a)]_vars

\* C7 witness: a polygon was linked to apt-2 in the editor, another polygon
\* is selected, and its link control shows apt-2 disabled
C7_Witness ==
    \E a \in PolyIdxs : \E b \in PolyIdxs :
        /\ a # b
        /\ At0(polygons, a).apartmentId = "apt-2"
        /\ selectedPolygonIdx = b
        /\ PanelRendered
        /\ OptionDisabled("apt-2")

\* C8: no two polygons of the set reference the same non-empty item
C8_LinkUniqueness ==
    \A a \in PolyIdxs : \A b \in PolyIdxs :
        (a # b /\ At0(polygons, a).apartmentId # Unlinked)
          => At0(polygons, a).apartmentId # At0(polygons, b).apartmentId

\* C8 witness: two polygons of the set are linked, to different items
C8_Witness ==
    \E a \in PolyIdxs : \E b \in PolyIdxs :
        /\ At0(polygons, a).apartmentId = "apt-1"
        /\ At0(polygons, b).apartmentId = "apt-2"

\* C11 as stated: Escape leaves the editor in mode select, from every mode and
\* with any buffer.
C11_EscapeLeavesSelect == [][KeyDownEscape => mode' = "select"]_vars

\* C11 (amended): Escape switches to select only from draw mode with a
\* non-empty buffer (which it discards); in select mode, in edit mode and in
\* draw mode with an empty buffer it leaves the mode as it is.  It always
\* clears the selection and never changes the polygon set.
C11_EscapeKeepsModeUnlessDrawing ==
    [][KeyDownEscape =>
         /\ mode' = (IF mode = "draw" /\ currentPoints # <<>>
                       THEN "select" ELSE mode)
         /\ (mode = "draw" => currentPoints' = <<>>)
         /\ selectedPolygonIdx' = Null
         /\ polygons' = polygons]_vars

\* C11 witness: in edit mode a vertex of one of the two loaded polygons is
\* held, and the selection its mousedown made is gone while both polygons
\* are still there: Escape was pressed and the mode is still edit
C11_Witness ==
    /\ mode = "edit"
    /\ draggingVertex # NoDrag
    /\ selectedPolygonIdx = Null
    /\ Len(polygons) = 2

\* C12: no delete (Delete/Backspace or the delete button) removes a polygon
\* while a vertex drag is active, so the polygon an active drag refers to is
\* always in the set.
C12_NoDeleteDuringDrag ==
    /\ [][((KeyDownDelete \/ DeleteButton) /\ Len(polygons') < Len(polygons))
            => draggingVertex = NoDrag]_vars
    /\ [](draggingVertex # NoDrag => InRange(polygons, draggingVertex.polyIdx))

----------------------------------------------------------------------------
(* Properties of stale drags (SpecStale) *)

\* C13: a pointer move of a vertex drag whose polygon index or vertex index
\* is out of range for the current set leaves the set unchanged.
C13_OutOfRangeUpdateIsNoOp ==
    [][\A c \in ClickPts :
         (draggingVertex # NoDrag /\ ~isPanning
             /\ ~(/\ InRange(polygons, draggingVertex.polyIdx)
                  /\ InRange(At0(polygons, draggingVertex.polyIdx).points,
                             draggingVertex.vertIdx))
             /\ handleMouseMove(c.x, c.y))
           => polygons' = polygons]_vars

----------------------------------------------------------------------------
(* Properties of drawing (SpecDraw) *)

\* C1 as stated: with at least 3 buffered points, a click at distance at most
\* 0.02 from the first point closes the polygon; a farther click appends.
C1_ClosesWithinRadiusInclusive ==
    [][\A c \in DrawPts :
         (mode = "draw" /\ Len(currentPoints) >= 3
             /\ handleSvgClick(c.x, c.y)) =>
           LET pt == screenToNormalized(c.x, c.y) IN
           IF SqDist(pt, currentPoints[1]) <= CloseRadius * CloseRadius
             THEN /\ polygons' = Append(polygons,
                        [apartmentId |-> Unlinked, points |-> currentPoints])
                  /\ currentPoints' = <<>>
             ELSE /\ currentPoints' = Append(currentPoints, pt)
                  /\ polygons' = polygons]_vars

\* C1 (amended): with at least 3 buffered points, a click at distance strictly
\* less than 0.02 from the first point commits the buffer as a new unlinked
\* polygon, selects it and leaves draw mode; a click at distance 0.02 or more
\* (0.02 itself, 0.021) appends a vertex and commits nothing.
C1_ClosesStrictlyWithinRadius ==
    [][\A c \in DrawPts :
         (mode = "draw" /\ Len(currentPoints) >= 3
             /\ handleSvgClick(c.x, c.y)) =>
           LET pt == screenToNormalized(c.x, c.y) IN
           IF SqDist(pt, currentPoints[1]) < CloseRadius * CloseRadius
             THEN /\ polygons' = Append(polygons,
                        [apartmentId |-> Unlinked, points |-> currentPoints])
                  /\ currentPoints' = <<>>
                  /\ selectedPolygonIdx' = Len(polygons)
                  /\ mode' = "select"
             ELSE /\ currentPoints' = Append(currentPoints, pt)
                  /\ polygons' = polygons
                  /\ mode' = "draw"]_vars

\* C1 witness: a buffer that starts at (0, 0.1) took a fourth point at
\* (0.02, 0.1), exactly the radius away from the first
C1_Witness ==
    /\ mode = "draw"
    /\ Len(currentPoints) = 4
    /\ currentPoints[1] = Pt(0, 100)
    /\ currentPoints[4] = Pt(20, 100)

\* C10 as stated: the buffer is empty whenever the mode is not draw
C10_BufferEmptyOutsideDraw == mode # "draw" => currentPoints = <<>>

\* C10 (amended): outside draw mode the buffer is never changed, entering
\* draw mode empties it, and leaving draw mode either empties it (closure,
\* Escape) or keeps it as it is (mode button to select or edit).
C10_BufferFrozenOutsideDraw ==
    [][/\ (mode # "draw" /\ mode' # "draw") => currentPoints' = currentPoints
       /\ (mode # "draw" /\ mode' = "draw") => currentPoints' = <<>>
       /\ (mode = "draw" /\ mode' # "draw") =>
             (currentPoints' = <<>> \/ currentPoints' = currentPoints)]_vars

\* C10 witness: a non-empty buffer outside draw mode
C10_Witness == mode # "draw" /\ currentPoints # <<>>

----------------------------------------------------------------------------
(* Properties of the square trace (SpecTrace) *)

\* C2: from an empty set in draw mode, the clicks at (0.1,0.1), (0.1,0.3),
\* (0.3,0.3), (0.3,0.1) buffer the square in that order; the click near
\* (0.1,0.1) leaves exactly one polygon with those 4 vertices and an empty
\* link; linking it to apt-1 sets polygon 0's link and keeps its vertices;
\* deleting it leaves no polygon.
C2_SquareTrace ==
    [][/\ \A c \in TracePts : \A k \in 1..4 :
            (mode = "draw" /\ polygons = <<>>
                /\ currentPoints = SubSeq(Square, 1, k - 1)
                /\ screenToNormalized(c.x, c.y) = Square[k]
                /\ handleSvgClick(c.x, c.y)) =>
              /\ currentPoints' = SubSeq(Square, 1, k)
              /\ polygons' = <<>>
       /\ (mode = "draw" /\ polygons = <<>> /\ currentPoints = Square
               /\ imageDimensions.width # 0
               /\ handleSvgClick(150, 70)) =>
             /\ polygons' =
                  << [apartmentId |-> Unlinked, points |-> Square] >>
             /\ currentPoints' = <<>>
       /\ (polygons = << [apartmentId |-> Unlinked, points |-> Square] >>
               /\ handleLinkApartment("apt-1")) =>
             polygons' = << [apartmentId |-> "apt-1", points |-> Square] >>
       /\ (polygons = << [apartmentId |-> "apt-1", points |-> Square] >>
               /\ selectedPolygonIdx = 0
               /\ (DeleteButton \/ KeyDownDelete)) =>
             polygons' = <<>>]_vars

\* C2 witness: the drawn square is the only polygon and is linked to apt-1
C2_Witness ==
    polygons = << [apartmentId |-> "apt-1", points |-> Square] >>

----------------------------------------------------------------------------
(* Properties of the view transform (SpecView) *)

\* C5: the zoom factor always lies in [0.5, 5], whatever zoom-in, zoom-out and
\* wheel events have happened, and a reset (Ctrl/Cmd 0 or the reset button)
\* sets zoom to 1 and pan to (0,0).
C5_ZoomWithinBounds ==
    /\ [](zoom.d <= 2 * zoom.n /\ zoom.n <= 5 * zoom.d)
    /\ [][(KeyDownZoomReset \/ ResetButton) =>
            (zoom' = Zoom(1, 1) /\ pan' = Pt(0, 0))]_vars

\* C5 witness: zoom sits at the upper bound with the view panned
C5_Witness == zoom = Zoom(5, 1) /\ pan # Pt(0, 0)

----------------------------------------------------------------------------
(* Properties of the view transform over polygon data (SpecFrame) *)

\* zoom-in, zoom-out, wheel zoom, reset, pan start, pan move, pan end
ViewTransformStep ==
    \/ KeyDownZoomIn \/ ZoomInButton
    \/ KeyDownZoomOut \/ ZoomOutButton
    \/ KeyDownZoomReset \/ ResetButton
    \/ Wheel
    \/ (spaceHeld /\ ViewMouseDown)
    \/ (isPanning /\ ViewMouseMove)
    \/ (isPanning /\ (handleMouseUp \/ handleKeyUp))

\* C14: every zoom-in, zoom-out, wheel zoom, reset, pan start, pan move and
\* pan end leaves the polygon set and the draw buffer as they were.
C14_ViewTransformKeepsPolygonData ==
    [][ViewTransformStep =>
         (polygons' = polygons /\ currentPoints' = currentPoints)]_vars

\* C14 witness: the view is zoomed and panned, a pan is under way, and
\* both the polygon set and the draw buffer hold points
C14_Witness ==
    /\ zoom # Zoom(1, 1)
    /\ pan # Pt(0, 0)
    /\ isPanning
    /\ polygons # <<>>
    /\ currentPoints # <<>>

----------------------------------------------------------------------------
(* Properties of the read-only viewers (SpecViewer) *)

RegionClick(a) == handlePolygonClick(a) \/ LegacyOnClick(a) \/ handleClick(a)

\* C3: with a filter active, a click on the region of an apartment whose
\* status is not in the filter dispatches nothing to the host, in each of the
\* three viewer variants.
C3_FilteredOutNeverDispatched ==
    [][\A a \in Apartments :
         (filterStatus.defined /\ apartments[a] \notin filterStatus.list
             /\ RegionClick(a)) => dispatched' = dispatched]_vars

\* C3 witness: the last click landed on a filtered-out apartment that is not
\* UNAVAILABLE, and the host has received nothing
C3_Witness ==
    /\ lastClick # NoClick
    /\ ~lastClick.vis
    /\ filterStatus.defined
    /\ apartments[lastClick.apt] \notin filterStatus.list
    /\ apartments[lastClick.apt] # "UNAVAILABLE"
    /\ dispatched = <<>>

\* C4: no apartment whose status is UNAVAILABLE is ever dispatched to the
\* host, whatever the filter: a click on its region leaves the log as it is.
C4_UnavailableNeverDispatched ==
    /\ [](\A i \in 1..Len(dispatched) : dispatched[i].status # "UNAVAILABLE")
    /\ [][\A a \in Apartments :
            (apartments[a] = "UNAVAILABLE" /\ RegionClick(a))
              => dispatched' = dispatched]_vars

\* C4 witness: the last click landed on an UNAVAILABLE apartment that the
\* filter includes, and the host has received nothing
C4_Witness ==
    /\ lastClick # NoClick
    /\ lastClick.vis
    /\ filterStatus.defined
    /\ "UNAVAILABLE" \in filterStatus.list
    /\ apartments[lastClick.apt] = "UNAVAILABLE"
    /\ dispatched = <<>>

----------------------------------------------------------------------------
(* Properties of the floor fill (SpecColor) *)

\* C9: the base colour of a floor region is the available colour when the
\* floor has no apartments or all are AVAILABLE, the sold colour when it has
\* apartments and none is AVAILABLE, and the reserved colour when some but not
\* all are AVAILABLE; each colour is the host's override or else the default.
C9_AggregateStatusCollapse ==
    floor.found =>
      LET l == floor.apartments
          all == \A i \in 1..Len(l) : l[i] = "AVAILABLE"
          none == \A i \in 1..Len(l) : l[i] # "AVAILABLE"
      IN  fill.base =
            IF Len(l) = 0 \/ all
              THEN (IF colors.available # "" THEN colors.available
                                             ELSE "#22c55e")
            ELSE IF none
              THEN (IF colors.sold # "" THEN colors.sold ELSE "#ef4444")
            ELSE (IF colors.reserved # "" THEN colors.reserved ELSE "#f59e0b")

\* C9 witness: [AVAILABLE, SOLD] with no override resolves to the default
\* reserved colour
C9_Witness ==
    /\ floor = [found |-> TRUE, apartments |-> <<"AVAILABLE", "SOLD">>]
    /\ colors.reserved = ""
    /\ fill.base = "#f59e0b"

----------------------------------------------------------------------------
(* Saving *)

\* the vertex lists a payload submits for entity e
SubmittedFor(items, e) ==
    {items[k].points : k \in {j \in 1..Len(items) : items[j].apartmentId = e}}

\* the request's clear of the floor has been done
PastClear(q) == q.pc = "write" \/ (q.pc = "respond" /\ q.i > 0)

\* C15: a save first clears the polygon data of every apartment of the
\* floor and only then writes the linked polygons one by one; from the
\* clear on, whether the save goes on, fails at some write or succeeds,
\* every apartment of the floor has no polygon data or holds exactly a
\* vertex list the save submitted for it.
C15_ClearThenWrite ==
    /\ [][\A r \in 1..Len(requests) : \A ok \in BOOLEAN :
            (ActionClear(r, ok) /\ requests'[r].result # "error")
               => \A e \in FloorEntities : db'[e] = NoData]_vars
    /\ [](\A r \in 1..Len(requests) :
            PastClear(requests[r]) =>
               \A e \in FloorEntities :
                  \/ db[e] = NoData
                  \/ db[e].points \in SubmittedFor(requests[r].payload.items, e))

\* a save of two linked polygons has failed at its second write: the first
\* apartment holds its submitted list, the second has no polygon data
C15_Witness ==
    \E r \in 1..Len(requests) :
       LET q == requests[r]
           items == q.payload.items
       IN  /\ q.pc = "respond"
           /\ q.result = "error"
           /\ q.i = 2
           /\ items[1].apartmentId \in FloorEntities
           /\ items[2].apartmentId \in FloorEntities
           /\ db[items[1].apartmentId] = Data(items[1].points)
           /\ db[items[2].apartmentId] = NoData

\* C16: a save whose form value is malformed (text that is not JSON, no
\* value at all, or JSON that is not a list of polygons) returns an error
\* and leaves the stored polygon data of every apartment as it was.
C16_MalformedSaveChangesNothing ==
    [][\A r \in 1..Len(requests) : \A ok \in BOOLEAN :
          (requests[r].payload \in Malformed /\ ActionClear(r, ok))
             => (requests'[r].result = "error" /\ db' = db)]_vars

\* a step of the save lifecycle: a submit, a step of the action, a response
SaveLifecycleStep == requests' # requests \/ fetcher' # fetcher \/ db' # db

\* C17: issuing a save, the steps of a save in flight and the arrival of
\* its result change nothing of the editor, the polygon set included;
\* whatever the state of the save, a selected polygon can be deleted,
\* relinked and deselected and a polygon can be selected; after a failed
\* save the same set can be submitted again.
C17_SaveNeverInterferes ==
    /\ [][SaveLifecycleStep => UNCHANGED editorVars]_vars
    /\ [](PanelRendered =>
            /\ ENABLED EditorStep(DeleteButton)
            /\ ENABLED EditorStep(DeselectButton)
            /\ ENABLED EditorStep(handleLinkApartment(Unlinked)))
    /\ [](polygons # <<>> => ENABLED EditorStep(PolygonOnClick(0)))
    /\ [](fetcher = [state |-> "idle", data |-> "error"] =>
            ENABLED SaveStep(handleSavePolygons))

\* a save failed, the set was edited while the retry is in flight
C17_Witness ==
    /\ fetcher = [state |-> "submitting", data |-> "error"]
    /\ polygons # <<>>
    /\ selectedPolygonIdx # Null
    /\ \E r \in 1..Len(requests) :
          /\ requests[r].from = "editor"
          /\ requests[r].pc = "write"
          /\ requests[r].payload # Stringify(polygons)

\* the editor's own requests in flight
EditorRequests == {r \in 1..Len(requests) : requests[r].from = "editor"}

\* C18 as stated: while a save of the editor is outstanding a second one
\* can be issued.
C18_SecondSaveCanBeIssued ==
    fetcher.state # "idle" => ENABLED SaveStep(handleSavePolygons)

\* C18: while a save of the editor is outstanding its save button is
\* disabled, so a save is issued only when none is outstanding and the
\* editor never has two in flight; a request in flight is never cancelled:
\* it leaves only once the action has returned.
C18_OneSaveAtATime ==
    /\ [](fetcher.state # "idle" => ~ENABLED SaveStep(handleSavePolygons))
    /\ [](Cardinality(EditorRequests) <= 1)
    /\ [](fetcher.state # "idle" <=> EditorRequests # {})
    /\ [][Len(requests') > Len(requests) => fetcher.state = "idle"]_vars
    /\ [][Len(requests') < Len(requests) =>
             \E r \in 1..Len(requests) :
                /\ requests[r].pc = "respond"
                /\ requests' = RemoveAt(requests, r - 1)]_vars

\* a second save, issued after the first one returned, is about to return
\* while the set has been edited again
C18_Witness ==
    /\ fetcher = [state |-> "submitting", data |-> "success"]
    /\ Len(requests) = 1
    /\ requests[1].pc = "respond"
    /\ requests[1].payload # Stringify(polygons)

----------------------------------------------------------------------------
(* Properties of the floor selector (SpecSelector) *)

\* C19: a floor region whose floor id matches no floor of the floors prop
\* is filled with the neutral colour rgba(100,130,255) (alpha 0.2, hovered
\* 0.55), and a click on it calls onFloorClick with nothing; a region whose
\* floor is found dispatches that floor's number.
C19_UnmatchedRegionIsInert ==
    /\ [](~floor.found =>
            /\ fill.base = "rgba(100,130,255,0.2)"
            /\ fill.css = [kind |-> "rgba", rgb |-> <<100, 130, 255>>,
                           alpha |-> IF isHovered THEN 55 ELSE 20,
                           text |-> ""])
    /\ [][lastClick' # lastClick =>
            IF floor.found
              THEN dispatched' = Append(dispatched, floor.number)
              ELSE dispatched' = dispatched]_vars

\* the floor of number 0 was clicked and dispatched, then left the floors
\* prop, and the hovered region was clicked again
C19_Witness ==
    /\ ~floor.found
    /\ isHovered
    /\ lastClick = [apt |-> "floor-1", via |-> "selector", vis |-> FALSE]
    /\ dispatched = <<0>>
    /\ fill.css.alpha = 55

----------------------------------------------------------------------------
(* Equivalence of the viewer variants (SpecViewer) *)

\* a click handled by A calls onApartmentClick
Dispatches(A) == ENABLED (A /\ dispatched' # dispatched)

\* C20: for every apartment, whatever its status and whatever the filter
\* (none included), a click on its region dispatches it in the legacy
\* embedded-markup variant exactly when it does in the image overlay, and
\* likewise in FloorPlanViewer; when they dispatch they dispatch the same.
C20_VariantsAgreeOnClicks ==
    /\ [](\A a \in Apartments :
            /\ Dispatches(LegacyOnClick(a)) <=> Dispatches(handlePolygonClick(a))
            /\ Dispatches(handleClick(a)) <=> Dispatches(handlePolygonClick(a)))
    /\ [][\A a \in Apartments :
            (LegacyOnClick(a) \/ handleClick(a) \/ handlePolygonClick(a)) =>
               dispatched' =
                  IF isVisible(a) /\ apartments[a] # "UNAVAILABLE"
                    THEN Append(dispatched,
                                [id |-> a, status |-> apartments[a]])
                    ELSE dispatched]_vars

\* under the filter [SOLD] the legacy variant has dispatched the sold
\* apartment and then ignored a click on the available one
C20_Witness ==
    /\ filterStatus = [defined |-> TRUE, list |-> {"SOLD"}]
    /\ apartments["apt-1"] = "SOLD"
    /\ apartments["apt-2"] = "AVAILABLE"
    /\ dispatched = <<[id |-> "apt-1", status |-> "SOLD"]>>
    /\ lastClick = [apt |-> "apt-2", via |-> "legacy", vis |-> FALSE]

----------------------------------------------------------------------------
(* Properties of the status colours (SpecStatus) *)

----------------------------------------------------------------------------
(* Properties of drawing (SpecDraw) *)

\* C22: with fewer than 3 buffered points a draw click, even one exactly on
\* the first point, appends its point and commits nothing; every polygon a
\* draw sequence adds to the set has at least 3 vertices.
C22_NoCloseBelowThreePoints ==
    /\ [][\A c \in DrawPts :
            (mode = "draw" /\ Len(currentPoints) < 3
                /\ handleSvgClick(c.x, c.y)) =>
              /\ currentPoints' =
                   Append(currentPoints, screenToNormalized(c.x, c.y))
              /\ polygons' = polygons
              /\ mode' = "draw"]_vars
    /\ [][Len(polygons') > Len(polygons) =>
            Len(polygons'[Len(polygons')].points) >= 3]_vars
    /\ [](\A i \in 1..Len(polygons) : Len(polygons[i].points) >= 3)

\* three clicks on the same position: the second and the third, both on the
\* first point, were appended and nothing was committed
C22_Witness ==
    /\ mode = "draw"
    /\ currentPoints = <<Pt(0, 100), Pt(0, 100), Pt(0, 100)>>
    /\ polygons = <<>>

----------------------------------------------------------------------------
(* Properties of the coordinate mapping (SpecSurface) *)

\* the pointer position c lies inside the overlay's on-screen box
InsideOverlay(c) ==
    LET rect == BoundingClientRect
    IN  /\ (c.x - rect.left) >= 0
        /\ (c.x - rect.left) * rect.den <= rect.wNum
        /\ (c.y - rect.top) >= 0
        /\ (c.y - rect.top) * rect.den <= rect.hNum

\* v, in thousandths of a canvas unit, is 100 * part / whole cut to the
\* thousandth of the normalized value
AtFraction(v, part, whole) ==
    /\ v % 100 = 0
    /\ (v \div 100) * whole <= Scale * part
    /\ Scale * part < ((v \div 100) + 1) * whole

\* C23: for every on-screen box of the overlay (every zoom and pan of the
\* session) and every pointer position inside it, screenToNormalized
\* followed by pointsToSvg gives the canvas point at the pointer's relative
\* position in the box, 100 x the fraction of its width and height, whatever
\* the box's size; a draw click buffers exactly that point.
C23_ResolutionIndependence ==
    /\ [](imageDimensions.width # 0 =>
            \A c \in SurfacePts :
               LET rect == BoundingClientRect
                   canvas == pointsToSvg(<<screenToNormalized(c.x, c.y)>>)[1]
               IN  /\ InsideOverlay(c)
                   /\ AtFraction(canvas.x, (c.x - rect.left) * rect.den,
                                 rect.wNum)
                   /\ AtFraction(canvas.y, (c.y - rect.top) * rect.den,
                                 rect.hNum))
    /\ [][\A c \in SurfacePts :
            (mode = "draw" /\ handleSvgClick(c.x, c.y)) =>
               currentPoints' =
                  Append(currentPoints, screenToNormalized(c.x, c.y))]_vars

\* at zoom 1.2 and pan (10, -5) the click at (290, 145) was buffered as
\* (0.2, 0.216): 240 of 1200 pixels, 130 of 600
C23_Witness ==
    /\ zoom = Zoom(6, 5)
    /\ pan = Pt(10, -5)
    /\ currentPoints = <<Pt(200, 216)>>
    /\ pointsToSvg(currentPoints) = <<Pt(20000, 21600)>>

----------------------------------------------------------------------------
(* Properties of the editing operations (Spec) *)

\* C24: a draw click that closes the polygon (3 or more buffered points,
\* click nearer than the radius to the first) appends to the set exactly one
\* unlinked polygon whose vertices are the buffered points in order, without
\* the click's own position; the polygons already there keep their place and
\* content, the buffer becomes empty, the new polygon (last index) becomes
\* the selection and the mode becomes select.  The set grows in no other way.
C24_CloseAppendsBufferedPolygon ==
    /\ [][\A c \in ClickPts :
            (mode = "draw" /\ Len(currentPoints) >= 3
                /\ SqDist(screenToNormalized(c.x, c.y), currentPoints[1])
                     < CloseRadius * CloseRadius
                /\ handleSvgClick(c.x, c.y)) =>
              /\ Len(polygons') = Len(polygons) + 1
              /\ SubSeq(polygons', 1, Len(polygons)) = polygons
              /\ polygons'[Len(polygons')] =
                   [apartmentId |-> "", points |-> currentPoints]
              /\ currentPoints' = <<>>
              /\ selectedPolygonIdx' = Len(polygons') - 1
              /\ mode' = "select"]_vars
    /\ [][Len(polygons') > Len(polygons) =>
            /\ mode = "draw" /\ Len(currentPoints) >= 3
            /\ polygons' = Append(polygons,
                  [apartmentId |-> "", points |-> currentPoints])]_vars

\* next to the loaded polygon of apt-1, the buffer (0,0) (0.3,0.3) (0.3,0.3)
\* was closed by a click at (0,0)
C24_Witness ==
    /\ polygons = << [apartmentId |-> "apt-1", points |-> <<A0, C0, B0>>],
                     [apartmentId |-> "", points |-> <<A0, B0, B0>>] >>
    /\ selectedPolygonIdx = 1
    /\ mode = "select"
    /\ currentPoints = <<>>

\* C25: in draw mode, with space not held and no pan active, every click on
\* the surface that does not close the polygon appends exactly one
\* normalized point to the end of the buffer and leaves mode, set and
\* selection unchanged, also when the position clicked lies over an existing
\* polygon (the click is then the one polygon i receives).
C25_DrawClickAppendsEverywhere ==
    /\ [][\A c \in ClickPts :
            (mode = "draw" /\ ~spaceHeld /\ ~isPanning
                /\ ~(Len(currentPoints) >= 3
                       /\ SqDist(screenToNormalized(c.x, c.y), currentPoints[1])
                            < CloseRadius * CloseRadius)
                /\ handleSvgClick(c.x, c.y)) =>
              /\ currentPoints' =
                   Append(currentPoints, screenToNormalized(c.x, c.y))
              /\ mode' = mode
              /\ polygons' = polygons
              /\ selectedPolygonIdx' = selectedPolygonIdx]_vars
    /\ [](\A i \in PolyIdxs :
            (mode = "draw" /\ ~spaceHeld /\ ~isPanning
                /\ Len(currentPoints) < 3) =>
              ~ENABLED (EditorStep(PolygonOnClick(i))
                          /\ Len(currentPoints') # Len(currentPoints) + 1))

----------------------------------------------------------------------------
(* Properties of clicks under a pan (SpecFrame) *)

\* the click changes what drawing and selecting work on
ClickActs ==
    <<currentPoints, polygons, selectedPolygonIdx, mode>>'
       # <<currentPoints, polygons, selectedPolygonIdx, mode>>

\* C26: while the space key is held or a pan is active, no click, on the
\* free surface or on a polygon, in any mode, changes the buffer, the set,
\* the selection or the mode; the buffer and the set never grow meanwhile.
C26_ClickIgnoredWhilePanning ==
    /\ []((spaceHeld \/ isPanning) =>
            /\ \A c \in FramePts :
                  ~ENABLED (EditorStep(handleSvgClick(c.x, c.y)) /\ ClickActs)
            /\ \A i \in PolyIdxs :
                  ~ENABLED (EditorStep(PolygonOnClick(i)) /\ ClickActs))
    /\ [][(spaceHeld \/ isPanning) =>
            /\ Len(currentPoints') <= Len(currentPoints)
            /\ Len(polygons') <= Len(polygons)]_vars

\* a pan is active in draw mode over a started buffer and a loaded polygon
C26_Witness ==
    /\ spaceHeld
    /\ isPanning
    /\ pan # Pt(0, 0)
    /\ mode = "draw"
    /\ Len(currentPoints) = 2
    /\ polygons # <<>>

----------------------------------------------------------------------------
(* Properties of the mode buttons (SpecDraw) *)

\* C27: the mode is always one of draw, edit, select and starts as select;
\* picking a mode button sets the mode to the one picked; entering draw
\* empties the buffer and clears the selection; picking any mode leaves the
\* polygon set unchanged.
C27_ModeButtonSetsMode ==
    /\ mode = "select"
    /\ [](mode \in {"draw", "edit", "select"})
    /\ [][\A m \in {"draw", "edit", "select"} :
            ModeButton(m) =>
              /\ mode' = m
              /\ (m = "draw" =>
                    currentPoints' = <<>> /\ selectedPolygonIdx' = Null)
              /\ polygons' = polygons]_vars

\* after a polygon was drawn and closed (which selected it), draw was
\* picked again: the selection is gone, the polygon is still there
C27_Witness ==
    /\ mode = "draw"
    /\ currentPoints = <<>>
    /\ selectedPolygonIdx = Null
    /\ Len(polygons) = 1
    /\ draggingVertex = NoDrag

----------------------------------------------------------------------------
(* Properties of deleting (Spec) *)

\* C28: Delete/Backspace or the delete button, with a selection in select or
\* edit mode, excludes exactly the selected polygon: the set is one shorter,
\* the polygons before the selected one stay where they are and those after
\* it move down by one, the selection becomes none and the mode is
\* unchanged; with no selection Delete/Backspace changes nothing.
C28_DeleteExcludesSelected ==
    /\ [][((KeyDownDelete \/ DeleteButton)
              /\ selectedPolygonIdx # Null /\ mode \in {"select", "edit"})
            => /\ Len(polygons') = Len(polygons) - 1
               /\ \A i \in 1..Len(polygons') :
                    polygons'[i] = (IF i <= selectedPolygonIdx
                                      THEN polygons[i] ELSE polygons[i + 1])
               /\ selectedPolygonIdx' = Null
               /\ mode' = mode]_vars
    /\ [](selectedPolygonIdx = Null =>
            ~ENABLED (EditorStep(KeyDownDelete) /\ editorVars' # editorVars))

\* of the two loaded polygons the first was selected and deleted in edit
\* mode: the second is now the only one, and nothing is selected
C28_Witness ==
    /\ mode = "edit"
    /\ selectedPolygonIdx = Null
    /\ draggingVertex = NoDrag
    /\ polygons = << [apartmentId |-> Unlinked, points |-> <<C0, B0, A0>>] >>

----------------------------------------------------------------------------
(* Properties of Escape (SpecDraw) *)

\* C29: after Escape, in any mode, nothing is selected; if the mode was draw
\* the buffer is empty; and the polygon set is what it was before, so a
\* discarded buffer is never committed.
C29_EscapeDiscardsAndDeselects ==
    [][KeyDownEscape =>
         /\ selectedPolygonIdx' = Null
         /\ (mode = "draw" => currentPoints' = <<>>)
         /\ polygons' = polygons]_vars

\* a polygon was drawn, and in select mode one of its vertex handles is
\* held; the selection the mousedown made is gone and the polygon is still
\* there: Escape was pressed
C29_Witness ==
    /\ mode = "select"
    /\ draggingVertex # NoDrag
    /\ selectedPolygonIdx = Null
    /\ currentPoints = <<>>
    /\ Len(polygons) = 1

----------------------------------------------------------------------------
(* Properties of starting a vertex drag (Spec) *)

\* C30: a vertex drag begins only by a mousedown on a vertex handle; a handle
\* exists only for the selected polygon or while the mode is edit, and never
\* in draw mode; the mousedown makes (polygon index, vertex index) the active
\* drag and that polygon the selection, and leaves mode and polygon set
\* unchanged.
C30_DragBeginsOnRenderedHandle ==
    /\ [][(draggingVertex' # NoDrag /\ draggingVertex' # draggingVertex)
            => \E i \in 0..MaxVerts : \E vi \in 0..MaxVerts :
                 handleVertexMouseDown(i, vi)]_vars
    /\ [][\A i \in 0..MaxVerts : \A vi \in 0..MaxVerts :
            handleVertexMouseDown(i, vi) =>
              /\ mode # "draw"
              /\ (i = selectedPolygonIdx \/ mode = "edit")
              /\ draggingVertex' = [polyIdx |-> i, vertIdx |-> vi]
              /\ selectedPolygonIdx' = i
              /\ mode' = mode
              /\ polygons' = polygons]_vars
    /\ [](mode = "draw" =>
            \A i \in 0..MaxVerts : \A vi \in 0..MaxVerts :
                ~HandleRendered(i, vi))

\* in select mode the last vertex of the second loaded polygon is held, and
\* that polygon is the selection
C30_Witness ==
    /\ mode = "select"
    /\ draggingVertex = [polyIdx |-> 1, vertIdx |-> 2]
    /\ selectedPolygonIdx = 1
    /\ Len(polygons) = 2
    /\ ~isPanning

----------------------------------------------------------------------------
(* SpecPointer: vertex drags and pans over a loaded polygon set, with the  *)
(* pointer events of the canvas in any order                               *)

\* pointer positions (clientX, clientY): two beyond the overlay's top left
\* corner at every pan (both normalize to (0,0), and a pan drag between them
\* moves the view by (10,5)), one beyond its bottom right corner ((1,1))
PointerPts == { Pt(0, 0), Pt(10, 5), Pt(10000, 10000) }

NextPointer ==
    \/ FrameStep(ImgOnLoad)
    \/ FrameStep(KeyDownSpace)
    \/ FrameStep(handleKeyUp)
    \/ FrameStep(KeyDownEscape)
    \/ FrameStep(KeyDownDelete)
    \/ FrameStep(PickMode)
    \/ FrameStep(PolygonClick)
    \/ FrameStep(VertexMouseDown)
    \/ FrameStep(\E c \in PointerPts : handleMouseDown(c.x, c.y))
    \/ FrameStep(\E c \in PointerPts : handleMouseMove(c.x, c.y))
    \/ FrameStep(handleMouseUp)

SpecPointer == InitFrame /\ [][NextPointer]_vars

----------------------------------------------------------------------------
(* Properties of ending a drag (SpecPointer) *)

\* C31: pointer up or pointer leave ends any active drag: right after it no
\* vertex drag and no pan is active, and the event changes neither the
\* polygon set, the selection nor the mode; while no drag is active a
\* pointer move changes nothing.
C31_PointerUpEndsDrag ==
    /\ [][handleMouseUp =>
            /\ draggingVertex' = NoDrag
            /\ ~isPanning'
            /\ polygons' = polygons
            /\ selectedPolygonIdx' = selectedPolygonIdx
            /\ mode' = mode]_vars
    /\ [](\A c \in PointerPts :
            (draggingVertex = NoDrag /\ ~isPanning) =>
              ~ENABLED (EditorStep(handleMouseMove(c.x, c.y))
                          /\ editorVars' # editorVars))

\* a vertex of the first loaded polygon was dragged and the view was panned,
\* and with the space key still down neither drag is active any more
C31_Witness ==
    /\ draggingVertex = NoDrag
    /\ ~isPanning
    /\ spaceHeld
    /\ pan # Pt(0, 0)
    /\ Len(polygons) >= 1
    /\ polygons[1].points \notin {<<A0, C0, B0>>, <<>>}
    /\ Len(polygons[1].points) = 3

----------------------------------------------------------------------------
(* SpecClamp: draw clicks and vertex drags from an empty set, with the     *)
(* pointer inside and outside the overlay, at several zooms and pans       *)

\* pointer positions (clientX, clientY): two beyond the overlay's top left
\* corner at every pan, one near that corner that is inside the overlay at
\* some pans and outside at others, one beyond the bottom right corner
ClampPts == { Pt(0, 0), Pt(10, 5), Pt(45, 24), Pt(10000, 10000) }

ClampStep(A) ==
    /\ EditorStep(A)
    /\ zoom'.n <= MaxClampZoomTerm /\ zoom'.d <= MaxClampZoomTerm
    /\ pan'.x <= MaxPan /\ pan'.x >= -MaxPan
    /\ pan'.y <= MaxPan /\ pan'.y >= -MaxPan

NextClamp ==
    \/ ClampStep(ImgOnLoad)
    \/ ClampStep(PickMode)
    \/ ClampStep(\E c \in ClampPts :
                    handleSvgClick(c.x, c.y) /\ Within(MaxClampVerts))
    \/ ClampStep(PolygonClick)
    \/ ClampStep(VertexMouseDown)
    \/ ClampStep(KeyDownSpace)
    \/ ClampStep(handleKeyUp)
    \/ ClampStep(KeyDownZoomIn)
    \/ ClampStep(KeyDownZoomReset)
    \/ ClampStep(\E c \in ClampPts : handleMouseDown(c.x, c.y))
    \/ ClampStep(\E c \in ClampPts : handleMouseMove(c.x, c.y))
    \/ ClampStep(handleMouseUp)

SpecClamp == InitDraw /\ [][NextClamp]_vars

----------------------------------------------------------------------------
(* Properties of clamping (SpecClamp) *)

InUnitSquare(p) == 0 <= p.x /\ p.x <= Scale /\ 0 <= p.y /\ p.y <= Scale

\* C32: every coordinate in the buffer and in the polygon set lies in [0,1],
\* whatever pointer positions (inside or outside the overlay), zooms and pans
\* the draw clicks and vertex drags that wrote them were made at.
C32_CoordinatesStayInUnitSquare ==
    /\ \A i \in 1..Len(currentPoints) : InUnitSquare(currentPoints[i])
    /\ \A i \in 1..Len(polygons) :
         \A j \in 1..Len(polygons[i].points) :
            InUnitSquare(polygons[i].points[j])

\* a drawn polygon is held by a vertex in a zoomed and panned view, and it
\* has a vertex clamped to (0,0), one clamped to (1,1) and one strictly
\* inside the unit square
C32_Witness ==
    /\ Len(polygons) = 1
    /\ draggingVertex # NoDrag
    /\ zoom = Zoom(6, 5)
    /\ pan # Pt(0, 0)
    /\ \E a, b, c \in 1..Len(polygons[1].points) :
         /\ polygons[1].points[a] = Pt(0, 0)
         /\ polygons[1].points[b] = Pt(Scale, Scale)
         /\ polygons[1].points[c].x \in 1..(Scale - 1)
         /\ polygons[1].points[c].y \in 1..(Scale - 1)

----------------------------------------------------------------------------
(* Properties of relinking (Spec) *)

\* C33: relinking replaces only the link of the selected polygon: that
\* polygon keeps its vertices, every other polygon, the number and order of
\* polygons, the selection and the mode stay as they are; with nothing
\* selected a relink changes nothing.
C33_RelinkReplacesOnlyTheLink ==
    /\ [][\A e \in Apartments \cup {Unlinked} :
            (handleLinkApartment(e) /\ selectedPolygonIdx # Null) =>
              /\ Len(polygons') = Len(polygons)
              /\ \A i \in 1..Len(polygons) :
                   /\ polygons'[i].points = polygons[i].points
                   /\ polygons'[i].apartmentId =
                        (IF i = selectedPolygonIdx + 1
                           THEN e ELSE polygons[i].apartmentId)
              /\ selectedPolygonIdx' = selectedPolygonIdx
              /\ mode' = mode]_vars
    /\ [](\A e \in Apartments \cup {Unlinked} :
            selectedPolygonIdx = Null =>
              ~ENABLED (EditorStep(handleLinkApartment(e))
                          /\ editorVars' # editorVars))

\* the second loaded polygon, loaded without a link, is selected and now
\* linked to apt-2 with its vertices as loaded; the first is as loaded
C33_Witness ==
    /\ polygons = << [apartmentId |-> "apt-1", points |-> <<A0, C0, B0>>],
                     [apartmentId |-> "apt-2", points |-> <<C0, B0, A0>>] >>
    /\ selectedPolygonIdx = 1
    /\ draggingVertex = NoDrag

----------------------------------------------------------------------------
(* Properties of persistence (SpecSave) *)

IsLinked(p) == p.apartmentId # Unlinked
LinkedItems(items) == SelectSeq(items, IsLinked)

\* C34: the order of the polygon set survives persistence: when the
\* editor's save has succeeded, loading the stored data yields the linked
\* polygons of the saved list in the order they had in that list.
C34_OrderSurvivesSave ==
    [][\A r \in 1..MaxInFlight :
         (Respond(r) /\ Len(requests) = 1
             /\ requests[r].from = "editor"
             /\ requests[r].result = "success")
           => InitialPolygons(db) = LinkedItems(requests[r].payload.items)]_vars

----------------------------------------------------------------------------
(* Properties of the save action's reach (SpecPost) *)

\* C35: no step of a save request for the floor, whether the save goes on
\* to succeed or to fail, changes the stored polygon data of an apartment
\* that does not belong to the floor.
C35_SaveTouchesOnlyItsFloor ==
    [][\A e \in Entities \ FloorEntities : db'[e] = db[e]]_vars

----------------------------------------------------------------------------
(* Invariants of the selection (Spec) *)

\* C36: the selection is none or an index of the current polygon set, in
\* every state reached by closing, selecting, vertex mousedowns, deleting by
\* key or button, Escape and mode changes.
C36_SelectionIsNoneOrValid ==
    selectedPolygonIdx = Null \/ InRange(polygons, selectedPolygonIdx)

\* of the two loaded polygons the first was deleted, and the second is now
\* selected at its new index 0
C36_Witness ==
    /\ selectedPolygonIdx = 0
    /\ polygons = << [apartmentId |-> Unlinked, points |-> <<C0, B0, A0>>] >>
    /\ mode = "select"

\* C37: whenever the mode is draw nothing is selected.
C37_NoSelectionWhileDrawing ==
    mode = "draw" => selectedPolygonIdx = Null

\* a polygon was drawn and closed, which selected it; draw was entered again
\* and a point of the next polygon is buffered with nothing selected
C37_Witness ==
    /\ mode = "draw"
    /\ Len(currentPoints) = 1
    /\ Len(polygons) = 1
    /\ selectedPolygonIdx = Null

----------------------------------------------------------------------------
(* SpecOneButton: the pointer events of SpecPointer with one button: each  *)
(* mousedown comes after the pointer up or leave that followed the         *)
(* previous one, so no mousedown arrives while a drag or a pan is active   *)

NextOneButton ==
    \/ FrameStep(ImgOnLoad)
    \/ FrameStep(KeyDownSpace)
    \/ FrameStep(handleKeyUp)
    \/ FrameStep(KeyDownEscape)
    \/ FrameStep(KeyDownDelete)
    \/ FrameStep(PickMode)
    \/ FrameStep(PolygonClick)
    \/ FrameStep(AfterMouseUp /\ VertexMouseDown)
    \/ FrameStep(AfterMouseUp /\ \E c \in PointerPts : handleMouseDown(c.x, c.y))
    \/ FrameStep(\E c \in PointerPts : handleMouseMove(c.x, c.y))
    \/ FrameStep(handleMouseUp)

SpecOneButton == InitFrame /\ [][NextOneButton]_vars

----------------------------------------------------------------------------
(* Properties of the active drag (SpecOneButton) *)

\* C38: a pan is active only while the space key is held, and releasing the
\* key ends it; when each mousedown follows the pointer up or leave of the
\* previous one, a pan and a vertex drag are never active at the same time.
C38_OneDragAndPanNeedsSpace ==
    /\ [](isPanning => spaceHeld)
    /\ [][handleKeyUp => ~isPanning']_vars
    /\ [](~(isPanning /\ draggingVertex # NoDrag))

\* after a pan that moved the view and was ended, a vertex is held and the
\* space key is down again, and no pan is active
C38_Witness ==
    /\ draggingVertex # NoDrag
    /\ spaceHeld
    /\ ~isPanning
    /\ pan # Pt(0, 0)

----------------------------------------------------------------------------
(* SpecAlone: save-polygons requests served one at a time, among them a    *)
(* list in which two polygons carry the same link and one carries none     *)

\* a polygon list with an unlinked polygon between two polygons linked to
\* the same apartment
DuplicateLinked ==
    {Stringify(<< [apartmentId |-> "apt-1", points |-> <<A0, C0, B0>>],
                  [apartmentId |-> Unlinked, points |-> <<A0, B0, D0>>],
                  [apartmentId |-> "apt-1", points |-> <<C0, B0, D0>>] >>)}

NextAlone ==
    \/ SaveStep(requests = <<>> /\
                  \E payload \in WellFormed \cup DuplicateLinked \cup Malformed :
                     PostSavePolygons(payload))
    \/ SaveStep(\E r \in 1..Len(requests) : \E ok \in BOOLEAN : ActionClear(r, ok))
    \/ SaveStep(\E r \in 1..Len(requests) : \E ok \in BOOLEAN : ActionWrite(r, ok))
    \/ SaveStep(\E r \in 1..Len(requests) : Respond(r))

SpecAlone == InitSave /\ [][NextAlone]_vars

----------------------------------------------------------------------------
(* Properties of what a save stores (SpecAlone) *)

\* the positions in a submitted list of the polygons linked to e
LinkedTo(items, e) == {k \in 1..Len(items) : items[k].apartmentId = e}
LastOf(S) == CHOOSE k \in S : \A j \in S : j <= k

\* C39: when a save of a polygon list has succeeded, an apartment of the
\* floor has stored polygon data if and only if some polygon of the list is
\* linked to it, and then it stores the vertices of the last such polygon of
\* the list; the set built from the stored data on the next load has no
\* unlinked polygon and holds, for each apartment, only what is stored.
C39_SavedIffLinkedLastWins ==
    \A r \in 1..Len(requests) :
       (requests[r].pc = "respond" /\ requests[r].result = "success") =>
          LET items == requests[r].payload.items
              loaded == InitialPolygons(db)
          IN  /\ \A e \in FloorEntities :
                   /\ db[e].set <=> LinkedTo(items, e) # {}
                   /\ LinkedTo(items, e) # {} =>
                        db[e].points = items[LastOf(LinkedTo(items, e))].points
              /\ \A i \in 1..Len(loaded) :
                   /\ loaded[i].apartmentId # Unlinked
                   /\ LinkedTo(items, loaded[i].apartmentId) # {}
                   /\ loaded[i].points = db[loaded[i].apartmentId].points
              /\ Len(loaded) = Cardinality({e \in FloorEntities :
                                               LinkedTo(items, e) # {}})

\* the list with two polygons linked to apt-1 and an unlinked one has been
\* saved with success over stored data for apt-2: apt-1 holds the vertices
\* of the later polygon, apt-2 holds nothing
C39_Witness ==
    \E r \in 1..Len(requests) :
       /\ requests[r].pc = "respond"
       /\ requests[r].result = "success"
       /\ requests[r].payload \in DuplicateLinked
       /\ db["apt-1"] = Data(<<C0, B0, D0>>)
       /\ db["apt-2"] = NoData
       /\ InitialPolygons(db) =
            << [apartmentId |-> "apt-1", points |-> <<C0, B0, D0>>] >>

============================================================================
